---- MODULE Spec2Model ----
(***************************************************************************)
(* k-mcp: an MCP gateway in front of one or more Kubernetes API servers.   *)
(* The module models the token verifier (verifyToken), the resource        *)
(* resolver (FindResource) and the resource_apply tool handler.            *)
(***************************************************************************)
EXTENDS Integers, Sequences, FiniteSets, TLC

(***************************************************************************)
(* Bounds of the model.                                                    *)
(***************************************************************************)
\* number of APIResourceLists a discovery answer holds at most
MaxLists == 2
\* instants of the clock are 0..MaxTime
MaxTime == 2
\* number of entries of a token's aud claim at most
MaxAud == 3
\* number of fragments of a resource_apply input at most
MaxDocs == 2
\* number of objects a cluster returns for one List at most
MaxItems == 2

(***************************************************************************)
(* Go's strings package, on TLA+ strings.                                  *)
(***************************************************************************)
\* unicode.ToLower on the letters A-Z
LowerOf ==
    [A |-> "a", B |-> "b", C |-> "c", D |-> "d", E |-> "e", F |-> "f", G |-> "g",
     H |-> "h", I |-> "i", J |-> "j", K |-> "k", L |-> "l", M |-> "m", N |-> "n",
     O |-> "o", P |-> "p", Q |-> "q", R |-> "r", S |-> "s", T |-> "t", U |-> "u",
     V |-> "v", W |-> "w", X |-> "x", Y |-> "y", Z |-> "z"]

\* s[i:] and s[:i] of Go, with 0-based i
From(s, i) == SubSeq(s, i + 1, Len(s))
Upto(s, i) == SubSeq(s, 1, i)

ToLowerChar(c) == IF c \in DOMAIN LowerOf THEN LowerOf[c] ELSE c

RECURSIVE ToLower(_)
ToLower(s) ==
    IF Len(s) = 0 THEN ""
    ELSE ToLowerChar(SubSeq(s, 1, 1)) \o ToLower(From(s, 1))

\* strings.Contains
Contains(s, sub) ==
    \E i \in 0..(Len(s) - Len(sub)) : SubSeq(s, i + 1, i + Len(sub)) = sub

\* strings.Index: 0-based position of the first occurrence, -1 if none
Index(s, sub) ==
    IF Contains(s, sub)
    THEN CHOOSE i \in 0..(Len(s) - Len(sub)) :
            /\ SubSeq(s, i + 1, i + Len(sub)) = sub
            /\ \A j \in 0..(i - 1) : SubSeq(s, j + 1, j + Len(sub)) # sub
    ELSE -1

\* strings.Count for a one-character separator
Count(s, c) == Cardinality({i \in 1..Len(s) : SubSeq(s, i, i) = c})

\* strings.HasSuffix
HasSuffix(s, suffix) ==
    /\ Len(s) >= Len(suffix)
    /\ SubSeq(s, Len(s) - Len(suffix) + 1, Len(s)) = suffix

\* strings.Join
RECURSIVE Join(_, _)
Join(elems, sep) ==
    IF Len(elems) = 0 THEN ""
    ELSE IF Len(elems) = 1 THEN elems[1]
    ELSE elems[1] \o sep \o Join(Tail(elems), sep)

\* strconv.Itoa on the small numbers the model prints
Itoa(n) == SubSeq("0123456789", n + 1, n + 1)

\* mutant: the numeral read as a zero-based index
Atoi_ZeroBased(s) ==
    IF Len(s) = 1 /\ Contains("0123456789", s)
    THEN Index("0123456789", s) + 1
    ELSE -1

\* strconv.Atoi on the replies the model draws: the value, or -1 for an error
Atoi(s) ==
    IF Len(s) = 1 /\ Contains("0123456789", s)
    THEN Index("0123456789", s)
    ELSE -1

(***************************************************************************)
(* k8s.io/apimachinery/pkg/runtime/schema, as FindResource calls it.       *)
(***************************************************************************)
\* schema.ParseGroupKind, the second result of schema.ParseKindArg
ParseGroupKind(gk) ==
    LET i == Index(gk, ".")
    IN  IF i = -1 THEN [Group |-> "", Kind |-> gk]
        ELSE [Group |-> From(gk, i + 1), Kind |-> Upto(gk, i)]

\* schema.ParseKindArg: a GroupVersionKind when the argument has two dots or
\* more (strings.SplitN(arg, ".", 3) of length 3), and ParseGroupKind of it
ParseKindArg(arg) ==
    LET i == Index(arg, ".")
        rest == IF i = -1 THEN "" ELSE From(arg, i + 1)
        j == Index(rest, ".")
    IN  [hasGVK |-> i # -1 /\ j # -1,
         gvk |-> IF i # -1 /\ j # -1
                 THEN [Group |-> From(rest, j + 1), Version |-> Upto(rest, j),
                       Kind |-> Upto(arg, i)]
                 ELSE [Group |-> "", Version |-> "", Kind |-> ""],
         gk |-> ParseGroupKind(arg)]

\* schema.ParseGroupVersion
ParseGroupVersion(gv) ==
    IF Len(gv) = 0 \/ gv = "/" THEN [err |-> FALSE, Group |-> "", Version |-> ""]
    ELSE IF Count(gv, "/") = 0 THEN [err |-> FALSE, Group |-> "", Version |-> gv]
    ELSE IF Count(gv, "/") = 1
         THEN LET i == Index(gv, "/")
              IN  [err |-> FALSE, Group |-> Upto(gv, i), Version |-> From(gv, i + 1)]
    ELSE [err |-> TRUE, Group |-> "", Version |-> ""]

(***************************************************************************)
(* Discovery content and elicit replies the model draws from.              *)
(***************************************************************************)
Res(name, kind, namespaced) == [Name |-> name, Kind |-> kind, Namespaced |-> namespaced]

\* the APIResourceLists a server's discovery answer is built from
ResourceLists ==
    { [GroupVersion |-> "v1",
       APIResources |-> <<Res("secrets", "Secret", TRUE), Res("pods", "Pod", TRUE)>>],
      [GroupVersion |-> "v1",
       APIResources |-> <<Res("pods", "Pod", TRUE), Res("podtemplates", "PodTemplate", TRUE)>>],
      [GroupVersion |-> "v1",
       APIResources |-> <<Res("serviceaccounts", "ServiceAccount", TRUE),
                          Res("services", "Service", TRUE)>>],
      [GroupVersion |-> "rbac.authorization.k8s.io/v1",
       APIResources |-> <<Res("roles", "Role", TRUE),
                          Res("clusterroles", "ClusterRole", FALSE)>>],
      [GroupVersion |-> "x.rbac.authorization.k8s.io/v1",
       APIResources |-> <<Res("roles", "Role", TRUE)>>],
      [GroupVersion |-> "example.com/v1",
       APIResources |-> <<Res("secrets", "Secret", TRUE), Res("nodes", "Node", FALSE)>>],
      [GroupVersion |-> "example.com/v2",
       APIResources |-> <<Res("secrets", "Secret", TRUE)>>],
      [GroupVersion |-> "a/b/v1",
       APIResources |-> <<Res("pods", "Pod", TRUE)>>] }

\* sequences without repetition of at most n elements of S
RECURSIVE SeqsUpTo(_, _)
SeqsUpTo(S, n) ==
    IF n = 0 THEN {<<>>}
    ELSE LET shorter == SeqsUpTo(S, n - 1)
         IN  shorter \cup {Append(q, e) : q \in {r \in shorter : Len(r) = n - 1},
                                          e \in S}

NoRepeat(q) == \A i, j \in 1..Len(q) : i # j => q[i] # q[j]

\* what discoveryClient.ServerPreferredResources() can answer
Discoveries ==
    {[err |-> TRUE, lists |-> <<>>]} \cup
    {[err |-> FALSE, lists |-> q] : q \in {r \in SeqsUpTo(ResourceLists, MaxLists) : NoRepeat(r)}}

\* the resource strings a caller passes
ResourceNames ==
    { "Pod", "pods", "po", "Secret", "secret", "Secret.example.com",
      "Secret.v1.example.com", "ServiceAccount", "s", "Role.rbac.authorization.k8s.io", "role", "nosuch", "" }

\* a JSON value of a content map: its type and its text
Str(v) == [t |-> "string", v |-> v]
Bool(v) == [t |-> "bool", v |-> v]
Num(v) == [t |-> "number", v |-> v]

\* an elicit result: the call's error, the action and the content map
Reply(err, action, content) == [err |-> err, Action |-> action, Content |-> content]

NoContent == [k \in {} |-> Str("")]
Content(key, val) == [k \in {key} |-> val]
\* no elicit was answered
NoReply == Reply(TRUE, "", NoContent)

ChoiceReplies ==
    {Reply(TRUE, "", NoContent), Reply(FALSE, "decline", NoContent),
     Reply(FALSE, "cancel", NoContent), Reply(FALSE, "accept", NoContent),
     Reply(FALSE, "accept", Content("choice", Num("1")))} \cup
    {Reply(FALSE, "accept", Content("choice", Str(c))) : c \in {"0", "1", "2", "3", "4", "x", ""}}

\* Content[key].(string) is ok
IsString(content, key) == key \in DOMAIN content /\ content[key].t = "string"
\* Content[key].(bool) is ok
IsBool(content, key) == key \in DOMAIN content /\ content[key].t = "bool"

(***************************************************************************)
(* The resource resolver.                                                  *)
(***************************************************************************)
GVR(group, version, resource) == [Group |-> group, Version |-> version, Resource |-> resource]
NoGVR == GVR("", "", "")

\* mutant: the RBAC group compared for equality, not as a suffix
isRestrictedResource_ExactGroup(gvr) ==
    \/ gvr.Group = "" /\ gvr.Resource \in {"secrets", "serviceaccounts"}
    \/ gvr.Group = "rbac.authorization.k8s.io"

\* the denylist: core secrets, core serviceaccounts, every RBAC group
isRestrictedResource(gvr) ==
    \/ gvr.Group = "" /\ gvr.Resource \in {"secrets", "serviceaccounts"}
    \/ HasSuffix(gvr.Group, "rbac.authorization.k8s.io")

\* mutant: the match sets are counted as the discovery loop collected them
filterRestricted_None(matches) == matches

\* the match sets with the denylisted entries dropped
filterRestricted(matches) == SelectSeq(matches, LAMBDA m : ~isRestrictedResource(m.gvr))

\* the loop over one APIResourceList: currentMatch of every resource, with the
\* Kind and Name the two tests of the loop body read
ScanList(resourceList) ==
    LET gv == ParseGroupVersion(resourceList.GroupVersion)
    IN  IF gv.err THEN <<>>
        ELSE [i \in 1..Len(resourceList.APIResources) |->
                [gvr |-> GVR(gv.Group, gv.Version, resourceList.APIResources[i].Name),
                 namespaced |-> resourceList.APIResources[i].Namespaced,
                 Kind |-> resourceList.APIResources[i].Kind,
                 Name |-> resourceList.APIResources[i].Name]]

\* mutant: the resource lists walked from the last to the first
RECURSIVE ScanLists_Reversed(_)
ScanLists_Reversed(resources) ==
    IF Len(resources) = 0 THEN <<>>
    ELSE ScanLists_Reversed(Tail(resources)) \o ScanList(Head(resources))

RECURSIVE ScanLists(_)
ScanLists(resources) ==
    IF Len(resources) = 0 THEN <<>>
    ELSE ScanList(Head(resources)) \o ScanLists(Tail(resources))

\* mutant: the namespaced flag of the resource is dropped
resourceMatch_NotNamespaced(c) == [gvr |-> c.gvr, namespaced |-> FALSE]

resourceMatch(c) == [gvr |-> c.gvr, namespaced |-> c.namespaced]
Matches(cands) == [i \in 1..Len(cands) |-> resourceMatch(cands[i])]

\* mutant: no resource counts as an exact match
exactMatches_None(resourceName, resources) == <<>>

\* mutant: a resource matches exactly by its Kind, whatever its group
exactMatches_KindOnly(resourceName, resources) ==
    LET gk == ParseGroupKind(resourceName)
    IN  Matches(SelectSeq(ScanLists(resources), LAMBDA c : c.Kind = gk.Kind))

exactMatches(resourceName, resources) ==
    LET gk == ParseGroupKind(resourceName)
    IN  Matches(SelectSeq(ScanLists(resources),
                          LAMBDA c : c.Kind = gk.Kind /\ c.gvr.Group = gk.Group))

\* mutant: a resource matches partially by its Kind only
partialMatches_KindOnly(resourceName, resources) ==
    LET gk == ParseGroupKind(resourceName)
    IN  Matches(SelectSeq(ScanLists(resources),
                          LAMBDA c : Contains(ToLower(c.Kind), ToLower(gk.Kind))))

\* mutant: every resource counts as a partial match
partialMatches_All(resourceName, resources) == Matches(ScanLists(resources))

partialMatches(resourceName, resources) ==
    LET gk == ParseGroupKind(resourceName)
    IN  Matches(SelectSeq(ScanLists(resources),
                          LAMBDA c : \/ Contains(ToLower(c.Kind), ToLower(gk.Kind))
                                     \/ Contains(ToLower(c.Name), ToLower(resourceName))))

\* mutant: the candidate printed as group.version.resource
OptionText_GroupFirst(m) == m.gvr.Group \o "." \o m.gvr.Version \o "." \o m.gvr.Resource

\* "%s.%s.%s" of a match
OptionText(m) == m.gvr.Resource \o "." \o m.gvr.Version \o "." \o m.gvr.Group

\* what FindResource hands back: the resource (NoGVR on failure), its
\* namespaced flag, the error text ("" for nil) and the elicits it issued
Found(m, elicits) ==
    [gvr |-> m.gvr, namespaced |-> m.namespaced, err |-> "", elicits |-> elicits]
Failed(text, elicits) ==
    [gvr |-> NoGVR, namespaced |-> FALSE, err |-> text, elicits |-> elicits]

\* the mcp.ElicitParams of an elicit: its message and the properties of its
\* requested schema (none when the call sets no RequestedSchema)
ElicitParams(message, properties) == [Message |-> message, RequestedSchema |-> properties]

\* the resolution rules over the two match sets
Resolve(resourceName, exact, partial, hasSession, reply) ==
    IF Len(exact) = 1 THEN Found(exact[1], <<>>)
    ELSE IF Len(exact) > 1 THEN Found(exact[1], <<>>)
    ELSE IF Len(partial) = 0
         THEN Failed("resource \"" \o resourceName \o "\" not found", <<>>)
    ELSE IF Len(partial) = 1 THEN Found(partial[1], <<>>)
    ELSE IF ~hasSession
         THEN Failed("resource \"" \o resourceName
                        \o "\" not found, did you mean one of these: "
                        \o Join([i \in 1..Len(partial) |-> OptionText(partial[i])], ", "),
                     <<>>)
    ELSE LET options == [i \in 1..Len(partial) |->
                            Itoa(i) \o ". " \o OptionText(partial[i])]
             message == ElicitParams("Resource '" \o resourceName
                                         \o "' not found. Did you mean one of these?\n"
                                         \o Join(options, "\n"),
                                     {})
             choiceStr == reply.Content["choice"].v
             choice == Atoi(choiceStr)
         IN  IF reply.err
             THEN Failed("failed to elicit user choice: elicit error", <<message>>)
             ELSE IF reply.Action # "accept"
             THEN Failed("user cancelled resource selection", <<message>>)
             ELSE IF ~IsString(reply.Content, "choice")
             THEN Failed("invalid choice format", <<message>>)
             ELSE IF choice < 1 \/ choice > Len(partial)
             THEN Failed("invalid choice: " \o choiceStr, <<message>>)
             ELSE Found(partial[choice], <<message>>)

FindResource(resourceName, discovery, hasSession, reply) ==
    IF discovery.err
    THEN Failed("failed to get server resources: discovery error", <<>>)
    ELSE Resolve(resourceName,
                 filterRestricted(exactMatches(resourceName, discovery.lists)),
                 filterRestricted(partialMatches(resourceName, discovery.lists)),
                 hasSession, reply)

(***************************************************************************)
(* The token verifier.                                                     *)
(***************************************************************************)
\* a claim that the token does not carry
Nil == -1

\* the audiences a server is started with (--audience, default k-mcp)
McpAudiences == {"k-mcp", "my-mcp"}
\* the entries a token's aud claim is made of
AudEntries == {"k-mcp", "my-mcp", "https://c1", "https://c2"}

RECURSIVE AllSeqs(_, _)
AllSeqs(S, n) ==
    IF n = 0 THEN {<<>>}
    ELSE LET shorter == AllSeqs(S, n - 1)
         IN  shorter \cup {Append(q, e) : q \in {r \in shorter : Len(r) = n - 1},
                                          e \in S}

Times == 0..MaxTime

\* what parser.ParseUnverified yields for a token string: its error, the
\* token's Valid flag and the decoded claims (a nil Audience is the empty one)
Tokens ==
    [Raw : {"token-1"}, parseErr : BOOLEAN, Valid : BOOLEAN,
     ExpiresAt : {Nil} \cup Times, NotBefore : {Nil} \cup Times,
     Audience : AllSeqs(AudEntries, MaxAud), Scopes : {<<>>}]

\* mutant: the loop stops at the MCP audience
RECURSIVE apiServersOf_Break(_, _)
apiServersOf_Break(audience, mcpAudience) ==
    IF Len(audience) = 0 THEN <<>>
    ELSE IF Head(audience) = mcpAudience THEN <<>>
    ELSE <<Head(audience)>> \o apiServersOf_Break(Tail(audience), mcpAudience)

\* the loop over claims.Audience: the entries that are not the MCP audience
RECURSIVE apiServersOf(_, _)
apiServersOf(audience, mcpAudience) ==
    IF Len(audience) = 0 THEN <<>>
    ELSE IF Head(audience) = mcpAudience
         THEN apiServersOf(Tail(audience), mcpAudience)
         ELSE <<Head(audience)>> \o apiServersOf(Tail(audience), mcpAudience)

\* mutant: the entries are compared with the default audience
foundAudience_Default(audience, mcpAudience) ==
    \E i \in 1..Len(audience) : audience[i] = "k-mcp"

\* the loop over claims.Audience: whether an entry is the MCP audience
foundAudience(audience, mcpAudience) ==
    \E i \in 1..Len(audience) : audience[i] = mcpAudience

\* mutant: an empty list of API servers is let through
noApiServers_Unchecked(apiServers) == FALSE

\* len(apiServers) == 0
noApiServers(apiServers) == Len(apiServers) = 0

\* http.StatusUnauthorized
StatusUnauthorized == 401

NoTokenInfo ==
    [Scopes |-> <<>>, Expiration |-> Nil, Extra |-> [audience |-> <<>>, bearer_token |-> ""]]

Rejected(text) == [status |-> "invalid_token", err |-> text, info |-> NoTokenInfo]

\* ExpiresAt.Before(time.Now())
expired(tok, t) == tok.ExpiresAt < t
\* NotBefore.After(time.Now())
notYetValid(tok, t) == tok.NotBefore # Nil /\ tok.NotBefore > t

\* mutant: the audience checks run before the checks of exp and nbf
verifyToken_AudienceFirst(tok, mcpAudience, t) ==
    IF tok.parseErr THEN Rejected("failed to parse token")
    ELSE IF ~tok.Valid THEN Rejected("invalid token")
    ELSE IF Len(tok.Audience) = 0 THEN Rejected("invalid token audience")
    ELSE IF ~foundAudience(tok.Audience, mcpAudience)
         THEN Rejected("token audience does not match " \o mcpAudience)
    ELSE IF noApiServers(apiServersOf(tok.Audience, mcpAudience))
         THEN Rejected("apiserver url not found in audience " \o mcpAudience)
    ELSE IF tok.ExpiresAt = Nil THEN Rejected("invalid token expired")
    ELSE IF expired(tok, t) THEN Rejected("token has expired")
    ELSE IF notYetValid(tok, t) THEN Rejected("token not yet valid")
    ELSE [status |-> "ok", err |-> "",
          info |-> [Scopes |-> tok.Scopes, Expiration |-> tok.ExpiresAt,
                    Extra |-> [audience |-> apiServersOf(tok.Audience, mcpAudience),
                               bearer_token |-> tok.Raw]]]

\* verifyToken: the TokenInfo of an accepted token, or the invalid_token error
verifyToken(tok, mcpAudience, t) ==
    IF tok.parseErr THEN Rejected("failed to parse token")
    ELSE IF ~tok.Valid THEN Rejected("invalid token")
    ELSE IF tok.ExpiresAt = Nil THEN Rejected("invalid token expired")
    ELSE IF expired(tok, t) THEN Rejected("token has expired")
    ELSE IF notYetValid(tok, t) THEN Rejected("token not yet valid")
    ELSE IF Len(tok.Audience) = 0 THEN Rejected("invalid token audience")
    ELSE IF ~foundAudience(tok.Audience, mcpAudience)
         THEN Rejected("token audience does not match " \o mcpAudience)
    ELSE IF noApiServers(apiServersOf(tok.Audience, mcpAudience))
         THEN Rejected("apiserver url not found in audience " \o mcpAudience)
    ELSE [status |-> "ok", err |-> "",
          info |-> [Scopes |-> tok.Scopes, Expiration |-> tok.ExpiresAt,
                    Extra |-> [audience |-> apiServersOf(tok.Audience, mcpAudience),
                               bearer_token |-> tok.Raw]]]

(***************************************************************************)
(* State.                                                                  *)
(***************************************************************************)
VARIABLES
    \* FindResource: its arguments, the elicit reply it got and its result
    resourceName, discovery, hasSession, elicitReply, found, findPc,
    \* the server's audience, the token of the request, the clock and the
    \* outcome of the bearer-token check
    Audience, token, now, auth,
    \* the handler of the /mcp chain the request is at, and the status code
    \* written to the client so far (0 for none)
    stage, httpStatus,
    \* resource_apply: the fragments of input.ResourceYAML, the handler's
    \* position, its locals, the calls it has issued and what it returned
    input, pc, unstructuredList, ci, oi, pending, resourceInfos, resourceSummaries,
    appliedResources, operationSummaries, calls, result,
    \* resource_list and resource_get: the objects collected so far
    results,
    \* the name of the tool the request calls
    tool,
    \* the number of calls issued when the request's context was cancelled
    \* (Nil while it is not)
    cancelledAt,
    \* Server.Run: the signal in sigChan, whether ctx is done, the state of
    \* the listener goroutine, the error in serverErr, the connections that
    \* are not idle, the seconds Shutdown has been running, Run's position and
    \* what it returned
    sigChan, ctxDone, listener, serverErr, conns, elapsed, runPc, runResult,
    \* the case the select took and the event that happened first
    taken, firstEvent

findVars == <<resourceName, discovery, hasSession, elicitReply, found, findPc>>
authVars == <<Audience, token, now, auth, stage, httpStatus, cancelledAt>>
runVars == <<sigChan, ctxDone, listener, serverErr, conns, elapsed, runPc, runResult,
             taken, firstEvent>>
toolVars == <<input, pc, unstructuredList, ci, oi, pending, resourceInfos,
              resourceSummaries, appliedResources, operationSummaries, calls, result,
              results, tool>>
vars == <<findVars, authVars, toolVars, runVars>>

NotFound == Failed("", <<>>)
NoAuth == [status |-> "none", err |-> "", info |-> NoTokenInfo]
NoToken == [Raw |-> "", parseErr |-> TRUE, Valid |-> FALSE, ExpiresAt |-> Nil,
            NotBefore |-> Nil, Audience |-> <<>>, Scopes |-> <<>>]

FindIdle ==
    /\ resourceName = ""
    /\ discovery = [err |-> TRUE, lists |-> <<>>]
    /\ hasSession = FALSE
    /\ elicitReply = NoReply
    /\ found = NotFound
    /\ findPc = "idle"

\* Server.Run has not been called
RunIdle ==
    /\ sigChan = ""
    /\ ctxDone = FALSE
    /\ listener = "none"
    /\ serverErr = ""
    /\ conns = 0
    /\ elapsed = 0
    /\ runPc = "idle"
    /\ runResult = "none"
    /\ taken = ""
    /\ firstEvent = ""

AuthIdle ==
    /\ Audience = "k-mcp"
    /\ token = NoToken
    /\ now = 0
    /\ auth = NoAuth
    /\ stage = "RequireBearerToken"
    /\ httpStatus = 0
    /\ cancelledAt = Nil

NoObject == [t |-> "none", Kind |-> "", Name |-> "", Namespace |-> ""]
NoPending == [gvr |-> NoGVR, isNamespaced |-> FALSE, namespace |-> ""]
NoResult == [status |-> "none", text |-> ""]

ToolIdle ==
    /\ input = <<>>
    /\ pc = "idle"
    /\ unstructuredList = <<>>
    /\ ci = 0
    /\ oi = 0
    /\ pending = NoPending
    /\ resourceInfos = <<>>
    /\ resourceSummaries = <<>>
    /\ appliedResources = <<>>
    /\ operationSummaries = <<>>
    /\ calls = <<>>
    /\ result = NoResult
    /\ results = <<>>
    /\ tool = ""

(***************************************************************************)
(* FindResource on every resource string, discovery answer and reply.      *)
(***************************************************************************)
InitFind ==
    /\ RunIdle
    /\ resourceName \in ResourceNames
    /\ discovery \in Discoveries
    /\ hasSession \in BOOLEAN
    /\ elicitReply = NoReply
    /\ found = NotFound
    /\ findPc = "call"
    /\ AuthIdle
    /\ ToolIdle

\* one call of FindResource; a reply exists only when the elicit is issued,
\* and is then the client's answer to it
FindResourceCall ==
    /\ findPc = "call"
    /\ LET silent == FindResource(resourceName, discovery, hasSession, NoReply)
       IN  IF Len(silent.elicits) = 0
           THEN /\ elicitReply' = NoReply
                /\ found' = silent
           ELSE \E reply \in ChoiceReplies :
                   /\ elicitReply' = reply
                   /\ found' = FindResource(resourceName, discovery, hasSession, reply)
    /\ findPc' = "done"
    /\ UNCHANGED <<resourceName, discovery, hasSession, authVars, toolVars, runVars>>

NextFind == FindResourceCall

SpecFind == InitFind /\ [][NextFind]_vars

(***************************************************************************)
(* The bearer-token check of a request to /mcp.                            *)
(***************************************************************************)
InitToken ==
    /\ RunIdle
    /\ Audience \in McpAudiences
    /\ token \in Tokens
    /\ now \in Times
    /\ auth = NoAuth
    /\ stage = "RequireBearerToken"
    /\ httpStatus = 0
    /\ cancelledAt = Nil
    /\ FindIdle
    /\ ToolIdle

\* mutant: the bearer-token check lets every request through
rejects_Never(a) == FALSE

\* auth.RequireBearerToken: the verifier returned an error
rejects(a) == a.status # "ok"

\* auth.RequireBearerToken calling verifyToken on the request's token: 401 for
\* an invalid token, else the TokenInfo is attached and the request goes on to
\* the wrapped handler
VerifyToken ==
    /\ auth.status = "none"
    /\ stage = "RequireBearerToken"
    /\ auth' = verifyToken(token, Audience, now)
    /\ IF rejects(auth')
       THEN /\ httpStatus' = StatusUnauthorized
            /\ stage' = "responded"
       ELSE /\ stage' = "loggingHandler"
            /\ UNCHANGED httpStatus
    /\ UNCHANGED <<Audience, token, now, cancelledAt, findVars, toolVars, runVars>>

\* loggingHandler: logs the request and calls the MCP streamable-HTTP handler,
\* whose server runs the receiving middleware
LoggingHandler ==
    /\ stage = "loggingHandler"
    /\ stage' = "loggingMiddleware"
    /\ UNCHANGED <<Audience, token, now, auth, httpStatus, cancelledAt, findVars,
                   toolVars, runVars>>

\* loggingMiddleware: logs the method and calls next, the tool handler
LoggingMiddleware ==
    /\ stage = "loggingMiddleware"
    /\ stage' = "tool"
    /\ UNCHANGED <<Audience, token, now, auth, httpStatus, cancelledAt, findVars,
                   toolVars, runVars>>

NextToken == VerifyToken

SpecToken == InitToken /\ [][NextToken]_vars

(***************************************************************************)
(* The resource_apply tool.                                                *)
(***************************************************************************)
\* a fragment of input.ResourceYAML between two "---": blank after trimming,
\* undecodable, decoding to no object, or an object
Fragment(t, kind, name, namespace) ==
    [t |-> t, Kind |-> kind, Name |-> name, Namespace |-> namespace]

Fragments ==
    { Fragment("blank", "", "", ""), Fragment("bad", "", "", ""),
      Fragment("null", "", "", ""),
      Fragment("obj", "Deployment", "web", "demo"),
      Fragment("obj", "Pod", "nginx", ""),
      Fragment("obj", "", "anon", "") }

\* the aud claims of the tokens that call the tool
ToolAudiences ==
    { <<"https://c1", "k-mcp">>, <<"k-mcp", "https://c2">>,
      <<"https://c1", "https://c2", "k-mcp">>, <<"https://c2", "k-mcp", "https://c1">>,
      <<"k-mcp", "https://c1", "k-mcp">>, <<"https://c1", "k-mcp", "default">>,
      <<"https://c1", "https://c1", "k-mcp">>,
      <<"https://c1">>, <<"k-mcp">> }

\* the discovery answer of the server behind a URL
ClusterDiscovery(u) ==
    IF u = "https://c1"
    THEN [err |-> FALSE,
          lists |-> <<[GroupVersion |-> "v1",
                       APIResources |-> <<Res("pods", "Pod", TRUE),
                                          Res("podtemplates", "PodTemplate", TRUE),
                                          Res("nodes", "Node", FALSE)>>],
                      [GroupVersion |-> "apps/v1",
                       APIResources |-> <<Res("deployments", "Deployment", TRUE)>>]>>]
    ELSE IF u = "https://c2"
    THEN [err |-> FALSE,
          lists |-> <<[GroupVersion |-> "v1",
                       APIResources |-> <<Res("secrets", "Secret", TRUE),
                                          Res("pods", "Pod", TRUE),
                                          Res("nodes", "Node", FALSE)>>],
                      [GroupVersion |-> "apps/v1",
                       APIResources |-> <<Res("deployments", "Deployment", TRUE)>>]>>]
    ELSE [err |-> TRUE, lists |-> <<>>]

\* the client's answers to the resolver's elicit during a tool call
ToolChoiceReplies ==
    { Reply(TRUE, "", NoContent), Reply(FALSE, "decline", NoContent),
      Reply(FALSE, "accept", Content("choice", Str("1"))),
      Reply(FALSE, "accept", Content("choice", Str("2"))),
      Reply(FALSE, "accept", Content("choice", Str("x"))) }

\* the client's answers to the confirmation elicit
ConfirmReplies ==
    { Reply(TRUE, "", NoContent), Reply(FALSE, "decline", NoContent),
      Reply(FALSE, "cancel", NoContent), Reply(FALSE, "accept", NoContent),
      Reply(FALSE, "accept", Content("confirm", Bool("true"))),
      Reply(FALSE, "accept", Content("confirm", Bool("false"))),
      Reply(FALSE, "accept", Content("confirm", Str("true"))) }

\* mutant: a fragment that does not decode is skipped
RECURSIVE Decode_SkipBad(_)
Decode_SkipBad(docs) ==
    IF Len(docs) = 0 THEN [err |-> FALSE, list |-> <<>>]
    ELSE LET doc == Head(docs)
             rest == Decode_SkipBad(Tail(docs))
         IN  IF doc.t = "obj"
             THEN [err |-> FALSE, list |-> <<doc>> \o rest.list]
             ELSE rest

\* the loop over the fragments: the first decode error, or the objects
RECURSIVE Decode(_)
Decode(docs) ==
    IF Len(docs) = 0 THEN [err |-> FALSE, list |-> <<>>]
    ELSE LET doc == Head(docs)
             rest == Decode(Tail(docs))
         IN  IF doc.t = "blank" THEN rest
             ELSE IF doc.t = "bad" THEN [err |-> TRUE, list |-> <<>>]
             ELSE IF doc.t = "null" THEN rest
             ELSE IF rest.err THEN rest
             ELSE [err |-> FALSE, list |-> <<doc>> \o rest.list]

\* mutant: the URLs taken from the last to the first
urlAt_Reversed(urls, i) == urls[Len(urls) + 1 - i]

\* for _, u := range apiServerUrls: the URL of the i-th pass of the loop
urlAt(urls, i) == urls[i]

\* a call the handler issues: building the clients of a cluster, discovery,
\* an elicit to the client, or a request to the cluster
Call(op, cluster, doc, ok, dryRun, obj, gvr, namespace, text, reply) ==
    [op |-> op, cluster |-> cluster, host |-> urlAt(auth.info.Extra.audience, cluster),
     doc |-> doc, ok |-> ok, dryRun |-> dryRun, obj |-> obj, gvr |-> gvr,
     namespace |-> namespace, text |-> text, reply |-> reply]

apiServerUrls == auth.info.Extra.audience

\* mutant: the clients are built without the token of the request
bearerToken_Empty == ""

bearerToken == auth.info.Extra.bearer_token

Return(status, text) == [status |-> status, text |-> text]

\* the elicits FindResource issued, as calls of the handler
ElicitCalls(cluster, doc, r, reply) ==
    [i \in 1..Len(r.elicits) |->
        Call("ElicitChoice", cluster, doc, ~reply.err, FALSE, NoObject, NoGVR, "",
             r.elicits[i].Message, reply)]

\* mutant: the lines name no namespace
nsInfo_Never(isNamespaced, namespace) == ""

\* " (namespace: %s)" for a namespaced resource
nsInfo(isNamespaced, namespace) ==
    IF isNamespaced THEN " (namespace: " \o namespace \o ")" ELSE ""

\* mutant: the error of the dry-run apply is dropped
dryRunFailed_Ignored(ok) == FALSE

\* err != nil after the dry-run apply
dryRunFailed(ok) == ~ok

\* mutant: any boolean confirm goes ahead
confirmed_AnyBool(reply) == IsBool(reply.Content, "confirm")

\* mutant: only an explicit confirm=false cancels
confirmed_UnlessFalse(reply) ==
    ~(IsBool(reply.Content, "confirm") /\ reply.Content["confirm"].v = "false")

\* mutant: an accepted elicit goes ahead whatever its content
confirmed_Always(reply) == TRUE

\* confirm, ok := Content["confirm"].(bool); ok && confirm
confirmed(reply) == IsBool(reply.Content, "confirm") /\ reply.Content["confirm"].v = "true"

\* mutant: the error of the real apply is dropped
applyFailed_Ignored(ok) == FALSE

\* err != nil after the real apply
applyFailed(ok) == ~ok

\* mutant: the applies name no field manager
FieldManager_None == ""

\* v1.ApplyOptions{FieldManager: "k-mcp"} of both applies
FieldManager == "k-mcp"

\* request.Extra.TokenInfo.Extra["audience"].([]string) and
\* Extra["bearer_token"].(string) panic: no TokenInfo is attached
readsFail(info) == info = NoTokenInfo

\* the handler up to its first cluster: the reads of the token info and the
\* decoding of the fragments
ApplyCall ==
    /\ stage = "tool"
    /\ tool = "resource_apply"
    /\ pc = "idle"
    /\ LET decoded == Decode(input)
       IN  IF readsFail(auth.info)
           THEN /\ result' = Return("panic", "nil pointer dereference")
                /\ pc' = "done"
                /\ UNCHANGED <<unstructuredList, ci>>
           ELSE IF decoded.err
           THEN /\ result' = Return("error", "failed to decode YAML document")
                /\ pc' = "done"
                /\ UNCHANGED <<unstructuredList, ci>>
           ELSE IF Len(decoded.list) = 0
           THEN /\ result' = Return("error", "no valid resources found in the provided YAML")
                /\ pc' = "done"
                /\ UNCHANGED <<unstructuredList, ci>>
           ELSE /\ unstructuredList' = decoded.list
                /\ ci' = 1
                /\ pc' = "load"
                /\ UNCHANGED result
    /\ UNCHANGED <<input, oi, pending, resourceInfos, resourceSummaries,
                   appliedResources, operationSummaries, calls, results, tool, findVars, authVars, runVars>>

\* dynamicConfig.LoadRestConfig for the cluster at hand
LoadRestConfig ==
    /\ pc = "load"
    /\ \E ok \in BOOLEAN :
          /\ calls' = Append(calls, Call("LoadRestConfig", ci, 0, ok, FALSE,
                                         NoObject, NoGVR, "", bearerToken, NoReply))
          /\ IF ok
             THEN /\ pc' = "object"
                  /\ oi' = 1
                  /\ resourceInfos' = <<>>
                  /\ resourceSummaries' = <<>>
                  /\ UNCHANGED result
             ELSE /\ pc' = "done"
                  /\ result' = Return("error", "failed to load dynamic client")
                  /\ UNCHANGED <<oi, resourceInfos, resourceSummaries>>
    /\ UNCHANGED <<input, unstructuredList, ci, pending, appliedResources,
                   operationSummaries, results, tool, findVars, authVars, runVars>>

\* the head of the loop over the objects: the kind, FindResource and the
\* namespace of the object at hand
ResolveObject ==
    /\ pc = "object"
    /\ LET resource == unstructuredList[oi]
           kind == resource.Kind
           host == urlAt(apiServerUrls, ci)
       IN  IF kind = ""
           THEN /\ result' = Return("error", "resource kind is required")
                /\ pc' = "done"
                /\ UNCHANGED <<unstructuredList, pending, calls>>
           ELSE \E reply \in ToolChoiceReplies :
                LET r == FindResource(ToLower(kind), ClusterDiscovery(host), TRUE, reply)
                    namespace == IF r.namespaced /\ resource.Namespace = ""
                                 THEN "default" ELSE resource.Namespace
                IN  /\ calls' = calls
                          \o <<Call("Discovery", ci, oi, ~ClusterDiscovery(host).err, FALSE,
                                    NoObject, NoGVR, "", "", NoReply)>>
                          \o ElicitCalls(ci, oi, r, reply)
                    /\ IF r.err # ""
                       THEN /\ result' = Return("error", "failed to find resource type "
                                                    \o kind \o ": " \o r.err)
                            /\ pc' = "done"
                            /\ UNCHANGED <<unstructuredList, pending>>
                       ELSE /\ unstructuredList' =
                                  IF r.namespaced
                                  THEN [unstructuredList EXCEPT ![oi].Namespace = namespace]
                                  ELSE unstructuredList
                            /\ pending' = [gvr |-> r.gvr, isNamespaced |-> r.namespaced,
                                           namespace |-> IF r.namespaced THEN namespace ELSE ""]
                            /\ pc' = "dryrun"
                            /\ UNCHANGED result
    /\ UNCHANGED <<input, ci, oi, resourceInfos, resourceSummaries, appliedResources,
                   operationSummaries, results, tool, findVars, authVars, runVars>>

\* the dry-run apply of the object at hand and the rest of the loop body
DryRunApply ==
    /\ pc = "dryrun"
    /\ LET resource == unstructuredList[oi]
       IN  \E ok \in BOOLEAN :
              /\ calls' = Append(calls, Call("Apply", ci, oi, ok, TRUE, resource,
                                             pending.gvr, pending.namespace, FieldManager,
                                             NoReply))
              /\ IF dryRunFailed(ok)
                 THEN /\ result' = Return("error", "dry-run validation failed for "
                                              \o resource.Kind \o "/" \o resource.Name)
                      /\ pc' = "done"
                      /\ UNCHANGED <<oi, resourceInfos, resourceSummaries>>
                 ELSE /\ resourceInfos' = Append(resourceInfos,
                            [doc |-> oi, gvr |-> pending.gvr,
                             isNamespaced |-> pending.isNamespaced,
                             namespace |-> pending.namespace])
                      /\ resourceSummaries' = Append(resourceSummaries,
                            "- apply " \o resource.Kind \o "/" \o resource.Name
                                \o nsInfo(pending.isNamespaced, pending.namespace))
                      /\ IF oi < Len(unstructuredList)
                         THEN oi' = oi + 1 /\ pc' = "object"
                         ELSE oi' = 0 /\ pc' = "confirm"
                      /\ UNCHANGED result
    /\ UNCHANGED <<input, unstructuredList, ci, pending, appliedResources,
                   operationSummaries, results, tool, findVars, authVars, runVars>>

\* the confirmation elicit of the cluster at hand and the checks of its result
ConfirmElicit ==
    /\ pc = "confirm"
    /\ \E reply \in ConfirmReplies :
          /\ calls' = Append(calls,
                Call("ElicitConfirm", ci, 0, ~reply.err, FALSE, NoObject, NoGVR, "",
                     "The following resources will be processed:\\n\\n"
                        \o Join(resourceSummaries, "\n")
                        \o "\\n\\nDo you want to proceed?", reply))
          /\ elicitReply' = reply
          /\ IF reply.err
             THEN /\ result' = Return("error", "failed to elicit user confirmation")
                  /\ pc' = "done"
                  /\ UNCHANGED oi
             ELSE IF reply.Action # "accept"
             THEN /\ result' = Return("result", "Operation cancelled by user")
                  /\ pc' = "done"
                  /\ UNCHANGED oi
             ELSE IF ~confirmed(reply)
             THEN /\ result' = Return("result", "Operation cancelled - user did not confirm")
                  /\ pc' = "done"
                  /\ UNCHANGED oi
             ELSE /\ pc' = "apply"
                  /\ oi' = 1
                  /\ UNCHANGED result
    /\ UNCHANGED <<input, unstructuredList, ci, pending, resourceInfos, resourceSummaries,
                   appliedResources, operationSummaries, resourceName, discovery,
                   hasSession, found, findPc, results, tool, authVars, runVars>>

\* "Successfully processed %d resource(s):\n\n%s"
SuccessText(applied, summaries) ==
    "Successfully processed " \o Itoa(Len(applied)) \o " resource(s):\n\n"
        \o Join(summaries, "\n")

\* the real apply of one validated object; after the last one the handler
\* goes on to the next cluster or returns
RealApply ==
    /\ pc = "apply"
    /\ LET info == resourceInfos[oi]
           resource == unstructuredList[info.doc]
           applied == Append(appliedResources, resource)
           summaries == Append(operationSummaries,
                            "- applied " \o resource.Kind \o "/" \o resource.Name
                                \o nsInfo(info.isNamespaced, resource.Namespace))
       IN  \E ok \in BOOLEAN :
              /\ calls' = Append(calls, Call("Apply", ci, info.doc, ok, FALSE,
                                             resource, info.gvr, info.namespace, FieldManager,
                                             NoReply))
              /\ IF applyFailed(ok)
                 THEN /\ result' = Return("error", "failed to apply "
                                              \o resource.Kind \o "/" \o resource.Name)
                      /\ pc' = "done"
                      /\ UNCHANGED <<ci, oi, appliedResources, operationSummaries>>
                 ELSE /\ appliedResources' = applied
                      /\ operationSummaries' = summaries
                      /\ IF oi < Len(resourceInfos)
                         THEN /\ oi' = oi + 1
                              /\ UNCHANGED <<ci, pc, result>>
                         ELSE IF ci < Len(apiServerUrls)
                         THEN /\ ci' = ci + 1
                              /\ oi' = 0
                              /\ pc' = "load"
                              /\ UNCHANGED result
                         ELSE /\ pc' = "done"
                              /\ result' = Return("result", SuccessText(applied, summaries))
                              /\ UNCHANGED <<ci, oi>>
    /\ UNCHANGED <<input, unstructuredList, pending, resourceInfos, resourceSummaries,
                   results, tool, findVars, authVars, runVars>>

ToolTokens ==
    {[Raw |-> "token-1", parseErr |-> FALSE, Valid |-> TRUE, ExpiresAt |-> MaxTime,
      NotBefore |-> Nil, Audience |-> a, Scopes |-> <<>>] : a \in ToolAudiences}

InitApply ==
    /\ RunIdle
    /\ Audience = "k-mcp"
    /\ token \in ToolTokens
    /\ now = 0
    /\ auth = NoAuth
    /\ stage = "RequireBearerToken"
    /\ httpStatus = 0
    /\ cancelledAt = Nil
    /\ FindIdle
    /\ input \in AllSeqs(Fragments, MaxDocs)
    /\ pc = "idle"
    /\ unstructuredList = <<>>
    /\ ci = 0
    /\ oi = 0
    /\ pending = NoPending
    /\ resourceInfos = <<>>
    /\ resourceSummaries = <<>>
    /\ appliedResources = <<>>
    /\ operationSummaries = <<>>
    /\ calls = <<>>
    /\ result = NoResult
    /\ results = <<>>
    /\ tool = "resource_apply"

NextApply ==
    \/ VerifyToken
    \/ LoggingHandler
    \/ LoggingMiddleware
    \/ ApplyCall
    \/ LoadRestConfig
    \/ ResolveObject
    \/ DryRunApply
    \/ ConfirmElicit
    \/ RealApply

SpecApply == InitApply /\ [][NextApply]_vars

(***************************************************************************)
(* The resource_list and resource_get tools.                               *)
(***************************************************************************)
\* the names of the objects a cluster holds
ObjectNames == {"a", "b"}

\* resources of an UnstructuredList a cluster answers a List with
ListAnswers ==
    {[err |-> TRUE, Items |-> <<>>]} \cup
    {[err |-> FALSE, Items |-> q] : q \in AllSeqs(ObjectNames, MaxItems)}

\* what a cluster answers a Get with
GetAnswers == {[err |-> TRUE, Object |-> ""]} \cup {[err |-> FALSE, Object |-> n] : n \in ObjectNames}

UnstructuredList(items) == [t |-> "list", Items |-> items]

ListInputs ==
    [Resource : {"Pod", "po", "Secret"}, Namespace : {"", "demo"},
     LabelSelector : {"", "app=web"}]

GetInputs ==
    [Resource : {"Pod", "po", "Deployment", "Node"}, Name : {"nginx"},
     Namespace : {"", "demo"}]

\* the client's answers to the namespace elicit of resource_get
NamespaceReplies ==
    { Reply(TRUE, "", NoContent), Reply(FALSE, "decline", NoContent),
      Reply(FALSE, "accept", NoContent),
      Reply(FALSE, "accept", Content("namespace", Str("prod"))),
      Reply(FALSE, "accept", Content("namespace", Str(""))),
      Reply(FALSE, "accept", Content("namespace", Num("7"))) }

\* mutant: the objects of a cluster put before the ones collected so far
appendItems_Front(collected, items) == items \o collected

\* result = append(result, item.Object) for every item
appendItems(collected, items) == collected \o items

\* "Found %d %s resources" and its two optional parts
ListMessage(n, in) ==
    "Found " \o Itoa(n) \o " " \o in.Resource \o " resources"
        \o (IF in.LabelSelector # ""
            THEN " with label selector '" \o in.LabelSelector \o "'" ELSE "")
        \o (IF in.Namespace # "" THEN " in namespace '" \o in.Namespace \o "'" ELSE "")

\* the resource_list handler up to its loop: the reads of the token info
ListCall ==
    /\ stage = "tool"
    /\ tool = "resource_list"
    /\ pc = "idle"
    /\ IF readsFail(auth.info)
       THEN /\ result' = Return("panic", "nil pointer dereference")
            /\ pc' = "done"
            /\ UNCHANGED ci
       ELSE /\ ci' = 1
            /\ pc' = "listLoad"
            /\ UNCHANGED result
    /\ UNCHANGED <<input, unstructuredList, oi, pending, resourceInfos, resourceSummaries,
                   appliedResources, operationSummaries, calls, results, tool,
                   findVars, authVars, runVars>>

\* dynamicConfig.LoadRestConfig of resource_list for the cluster at hand
ListLoadRestConfig ==
    /\ pc = "listLoad"
    /\ \E ok \in BOOLEAN :
          /\ calls' = Append(calls, Call("LoadRestConfig", ci, 0, ok, FALSE,
                                         NoObject, NoGVR, "", bearerToken, NoReply))
          /\ IF ok
             THEN pc' = "listFind" /\ UNCHANGED result
             ELSE pc' = "done" /\ result' = Return("error", "failed to load dynamic client")
    /\ UNCHANGED <<input, unstructuredList, ci, oi, pending, resourceInfos,
                   resourceSummaries, appliedResources, operationSummaries, results, tool,
                   findVars, authVars, runVars>>

\* FindResource of resource_list on the cluster at hand
ListFindResource ==
    /\ pc = "listFind"
    /\ \E reply \in ToolChoiceReplies :
          LET host == urlAt(apiServerUrls, ci)
              r == FindResource(input.Resource, ClusterDiscovery(host), TRUE, reply)
          IN  /\ calls' = calls
                    \o <<Call("Discovery", ci, 0, ~ClusterDiscovery(host).err, FALSE,
                              NoObject, NoGVR, "", "", NoReply)>>
                    \o ElicitCalls(ci, 0, r, reply)
              /\ IF r.err # ""
                 THEN /\ result' = Return("error", "given resource " \o input.Resource
                                              \o " not found " \o r.err)
                      /\ pc' = "done"
                      /\ UNCHANGED pending
                 ELSE /\ pending' = [gvr |-> r.gvr, isNamespaced |-> r.namespaced,
                                     namespace |-> input.Namespace]
                      /\ pc' = "listItems"
                      /\ UNCHANGED result
    /\ UNCHANGED <<input, unstructuredList, ci, oi, resourceInfos, resourceSummaries,
                   appliedResources, operationSummaries, results, tool, findVars, authVars, runVars>>

\* the List of the cluster at hand and the collection of its items; after the
\* last cluster the handler returns
ListResources ==
    /\ pc = "listItems"
    /\ \E answer \in ListAnswers :
          LET collected == appendItems(results, answer.Items)
          IN  /\ calls' = Append(calls, Call("List", ci, 0, ~answer.err, FALSE,
                                             UnstructuredList(answer.Items), pending.gvr,
                                             input.Namespace, input.LabelSelector, NoReply))
              /\ IF answer.err
                 THEN /\ result' = Return("error", "failed to list resources")
                      /\ pc' = "done"
                      /\ UNCHANGED <<ci, results>>
                 ELSE /\ results' = collected
                      /\ IF ci < Len(apiServerUrls)
                         THEN ci' = ci + 1 /\ pc' = "listLoad" /\ UNCHANGED result
                         ELSE /\ pc' = "done"
                              /\ result' = Return("result", ListMessage(Len(collected), input))
                              /\ UNCHANGED ci
    /\ UNCHANGED <<input, unstructuredList, oi, pending, resourceInfos, resourceSummaries,
                   appliedResources, operationSummaries, tool, findVars, authVars, runVars>>

\* the resource_get handler up to its loop: the reads of the token info
GetCall ==
    /\ stage = "tool"
    /\ tool = "resource_get"
    /\ pc = "idle"
    /\ IF readsFail(auth.info)
       THEN /\ result' = Return("panic", "nil pointer dereference")
            /\ pc' = "done"
            /\ UNCHANGED ci
       ELSE /\ ci' = 1
            /\ pc' = "getLoad"
            /\ UNCHANGED result
    /\ UNCHANGED <<input, unstructuredList, oi, pending, resourceInfos, resourceSummaries,
                   appliedResources, operationSummaries, calls, results, tool,
                   findVars, authVars, runVars>>

\* dynamicConfig.LoadRestConfig of resource_get for the cluster at hand
GetLoadRestConfig ==
    /\ pc = "getLoad"
    /\ \E ok \in BOOLEAN :
          /\ calls' = Append(calls, Call("LoadRestConfig", ci, 0, ok, FALSE,
                                         NoObject, NoGVR, "", bearerToken, NoReply))
          /\ IF ok
             THEN pc' = "getFind" /\ UNCHANGED result
             ELSE pc' = "done" /\ result' = Return("error", "failed to load dynamic client")
    /\ UNCHANGED <<input, unstructuredList, ci, oi, pending, resourceInfos,
                   resourceSummaries, appliedResources, operationSummaries, results, tool,
                   findVars, authVars, runVars>>

\* mutant: every namespaced resource asks for a namespace
needsNamespace_Always(isNamespaced, namespace) == isNamespaced

\* isNamespaced && input.Namespace == ""
needsNamespace(isNamespaced, namespace) == isNamespaced /\ namespace = ""

\* mutant: the namespace of the reply is dropped for "default"
chosenNamespace_AlwaysDefault(reply) == "default"

\* mutant: the namespace of the reply is taken as it is, without a default
chosenNamespace_NoDefault(reply) ==
    IF IsString(reply.Content, "namespace") THEN reply.Content["namespace"].v ELSE ""

\* namespace, ok := Content["namespace"].(string), "default" when it is
\* missing, no string or empty
chosenNamespace(reply) ==
    IF IsString(reply.Content, "namespace") /\ reply.Content["namespace"].v # ""
    THEN reply.Content["namespace"].v
    ELSE "default"

\* FindResource of resource_get on the cluster at hand
GetFindResource ==
    /\ pc = "getFind"
    /\ \E reply \in ToolChoiceReplies :
          LET host == urlAt(apiServerUrls, ci)
              r == FindResource(input.Resource, ClusterDiscovery(host), TRUE, reply)
          IN  /\ calls' = calls
                    \o <<Call("Discovery", ci, 0, ~ClusterDiscovery(host).err, FALSE,
                              NoObject, NoGVR, "", "", NoReply)>>
                    \o ElicitCalls(ci, 0, r, reply)
              /\ IF r.err # ""
                 THEN /\ result' = Return("error", "given resource " \o input.Resource
                                              \o " not found " \o r.err)
                      /\ pc' = "done"
                      /\ UNCHANGED pending
                 ELSE /\ pending' = [gvr |-> r.gvr, isNamespaced |-> r.namespaced,
                                     namespace |-> input.Namespace]
                      /\ pc' = IF needsNamespace(r.namespaced, input.Namespace)
                               THEN "getNamespace" ELSE "getItem"
                      /\ UNCHANGED result
    /\ UNCHANGED <<input, unstructuredList, ci, oi, resourceInfos, resourceSummaries,
                   appliedResources, operationSummaries, results, tool, findVars, authVars, runVars>>

\* the namespace elicit of resource_get: the namespace of the reply, or
\* "default", becomes input.Namespace
GetNamespaceElicit ==
    /\ pc = "getNamespace"
    /\ \E reply \in NamespaceReplies :
          /\ calls' = Append(calls,
                Call("ElicitNamespace", ci, 0, ~reply.err, FALSE, NoObject, pending.gvr,
                     input.Namespace, "Namespace is required for namespaced resource " \o input.Resource
                        \o ". Please specify a namespace:", reply))
          /\ elicitReply' = reply
          /\ IF reply.err
             THEN /\ result' = Return("error", "failed to elicit namespace")
                  /\ pc' = "done"
                  /\ UNCHANGED input
             ELSE IF reply.Action # "accept"
             THEN /\ result' = Return("error", "user cancelled namespace selection")
                  /\ pc' = "done"
                  /\ UNCHANGED input
             ELSE /\ input' = [input EXCEPT !.Namespace = chosenNamespace(reply)]
                  /\ pc' = "getItem"
                  /\ UNCHANGED result
    /\ UNCHANGED <<unstructuredList, ci, oi, pending, resourceInfos, resourceSummaries,
                   appliedResources, operationSummaries, results, tool, resourceName,
                   discovery, hasSession, found, findPc, authVars, runVars>>

\* mutant: resource_get deletes the object it names
getVerb_Delete == "Delete"

\* dynamicClient.Resource(gvr).Namespace(namespace).Get, or the same without
\* the namespace
getVerb == "Get"

\* the Get of the cluster at hand; after the last cluster the handler returns
GetResource ==
    /\ pc = "getItem"
    /\ \E answer \in GetAnswers :
          LET collected == appendItems(results, <<answer.Object>>)
          IN  /\ calls' = Append(calls, Call(getVerb, ci, 0, ~answer.err, FALSE,
                                             UnstructuredList(<<answer.Object>>), pending.gvr,
                                             input.Namespace, input.Name, NoReply))
              /\ IF answer.err
                 THEN /\ result' = Return("error", "failed to get resource")
                      /\ pc' = "done"
                      /\ UNCHANGED <<ci, results>>
                 ELSE /\ results' = collected
                      /\ IF ci < Len(apiServerUrls)
                         THEN ci' = ci + 1 /\ pc' = "getLoad" /\ UNCHANGED result
                         ELSE /\ pc' = "done"
                              /\ result' = Return("result", "Retrieved " \o input.Resource
                                                      \o "/" \o input.Name)
                              /\ UNCHANGED ci
    /\ UNCHANGED <<input, unstructuredList, oi, pending, resourceInfos, resourceSummaries,
                   appliedResources, operationSummaries, tool, findVars, authVars, runVars>>

\* a request to /mcp that calls one of the three tools
InitTools ==
    /\ RunIdle
    /\ Audience = "k-mcp"
    /\ token \in ToolTokens
    /\ now = 0
    /\ auth = NoAuth
    /\ stage = "RequireBearerToken"
    /\ httpStatus = 0
    /\ cancelledAt = Nil
    /\ FindIdle
    /\ \/ tool = "resource_list" /\ input \in ListInputs
       \/ tool = "resource_get" /\ input \in GetInputs
       \/ tool = "resource_apply" /\ input \in AllSeqs(Fragments, MaxDocs)
    /\ pc = "idle"
    /\ unstructuredList = <<>>
    /\ ci = 0
    /\ oi = 0
    /\ pending = NoPending
    /\ resourceInfos = <<>>
    /\ resourceSummaries = <<>>
    /\ appliedResources = <<>>
    /\ operationSummaries = <<>>
    /\ calls = <<>>
    /\ result = NoResult
    /\ results = <<>>

NextTools ==
    \/ VerifyToken
    \/ LoggingHandler
    \/ LoggingMiddleware
    \/ ListCall
    \/ ListLoadRestConfig
    \/ ListFindResource
    \/ ListResources
    \/ GetCall
    \/ GetLoadRestConfig
    \/ GetFindResource
    \/ GetNamespaceElicit
    \/ GetResource
    \/ ApplyCall
    \/ LoadRestConfig
    \/ ResolveObject
    \/ DryRunApply
    \/ ConfirmElicit
    \/ RealApply

SpecTools == InitTools /\ [][NextTools]_vars

(***************************************************************************)
(* Properties of the resolver.                                             *)
(***************************************************************************)
\* the denylist as the documentation states it
Denylisted(gvr) ==
    \/ gvr.Group = "" /\ gvr.Resource = "secrets"
    \/ gvr.Group = "" /\ gvr.Resource = "serviceaccounts"
    \/ HasSuffix(gvr.Group, "rbac.authorization.k8s.io")

\* every match, exact or partial, of the resource string in the discovery
\* answer, before any filtering
RawMatches(name, disc) ==
    exactMatches(name, disc.lists) \o partialMatches(name, disc.lists)

HasDenylistedMatch ==
    \E i \in 1..Len(RawMatches(resourceName, discovery)) :
        Denylisted(RawMatches(resourceName, discovery)[i].gvr)

WithoutDenylisted(disc) ==
    [err |-> disc.err,
     lists |-> [i \in 1..Len(disc.lists) |->
        LET gv == ParseGroupVersion(disc.lists[i].GroupVersion)
        IN  [GroupVersion |-> disc.lists[i].GroupVersion,
             APIResources |->
                SelectSeq(disc.lists[i].APIResources,
                          LAMBDA r : gv.err \/ ~Denylisted(GVR(gv.Group, gv.Version, r.Name)))]]]

SecretsAndPods ==
    [err |-> FALSE,
     lists |-> <<[GroupVersion |-> "v1",
                  APIResources |-> <<Res("secrets", "Secret", TRUE), Res("pods", "Pod", TRUE)>>]>>]

Positions(disc) ==
    UNION {{<<i, j>> : j \in 1..Len(disc.lists[i].APIResources)} :
             i \in {k \in 1..Len(disc.lists) :
                      ~ParseGroupVersion(disc.lists[k].GroupVersion).err}}

EntryGVR(disc, p) ==
    LET gv == ParseGroupVersion(disc.lists[p[1]].GroupVersion)
    IN  GVR(gv.Group, gv.Version, disc.lists[p[1]].APIResources[p[2]].Name)

EntryKind(disc, p) == disc.lists[p[1]].APIResources[p[2]].Kind
EntryNamespaced(disc, p) == disc.lists[p[1]].APIResources[p[2]].Namespaced

\* discovery order: lists in order, then the resources within a list
Earlier(p, q) == p[1] < q[1] \/ (p[1] = q[1] /\ p[2] < q[2])

\* the n-th place of a set of places, in discovery order
Nth(S, n) == CHOOSE p \in S : Cardinality({q \in S : Earlier(q, p)}) = n - 1

\* the places that match the input exactly, the denylisted ones left out
ExactPositions(name, disc) ==
    {p \in Positions(disc) :
        /\ EntryKind(disc, p) = ParseGroupKind(name).Kind
        /\ EntryGVR(disc, p).Group = ParseGroupKind(name).Group
        /\ ~Denylisted(EntryGVR(disc, p))}

\* the places that match the input partially, the denylisted ones left out
PartialPositions(name, disc) ==
    {p \in Positions(disc) :
        /\ \/ Contains(ToLower(EntryKind(disc, p)), ToLower(ParseGroupKind(name).Kind))
           \/ Contains(ToLower(EntryGVR(disc, p).Resource), ToLower(name))
        /\ ~Denylisted(EntryGVR(disc, p))}

Exacts == ExactPositions(resourceName, discovery)
Partials == PartialPositions(resourceName, discovery)
Resolved == findPc = "done" /\ ~discovery.err

PodsAndTemplates ==
    [err |-> FALSE,
     lists |-> <<[GroupVersion |-> "v1",
                  APIResources |-> <<Res("pods", "Pod", TRUE),
                                     Res("podtemplates", "PodTemplate", TRUE)>>]>>]

DeploymentsAndReplicaSets ==
    [err |-> FALSE,
     lists |-> <<[GroupVersion |-> "apps/v1",
                  APIResources |-> <<Res("deployments", "Deployment", TRUE),
                                     Res("replicasets", "ReplicaSet", TRUE)>>]>>]

DeploymentDotApps == FindResource("Deployment.apps", DeploymentsAndReplicaSets, TRUE, NoReply)

\* C14: when at least one exact match remains after the denylist, FindResource
\* returns an exact match, never a resource that matches only partially, and
\* issues no elicit, however many partial matches there are; "Deployment.apps"
\* gives apps/v1 deployments and "Pod" gives pods next to podtemplates.
C14_ExactMatchWins ==
    /\ (Resolved /\ Exacts # {}) =>
          /\ found.err = ""
          /\ found.elicits = <<>>
          /\ \E p \in Exacts : /\ found.gvr = EntryGVR(discovery, p)
                               /\ found.namespaced = EntryNamespaced(discovery, p)
    /\ (Resolved /\ resourceName = "Pod" /\ discovery = PodsAndTemplates) =>
          found.gvr = GVR("", "v1", "pods")
    /\ DeploymentDotApps.gvr = GVR("apps", "v1", "deployments")
    /\ DeploymentDotApps.elicits = <<>>

\* C14 witness: a call with a session that returned the exact match while two
\* or more resources matched partially.
C14_Witness ==
    /\ Resolved
    /\ hasSession
    /\ Exacts # {}
    /\ Cardinality(Partials) >= 2
    /\ Partials \ Exacts # {}
    /\ found.err = ""

\* C15: when several exact matches remain, FindResource returns the first of
\* them in discovery order (lists in order, then resources within a list), and
\* the result depends on neither the session nor an elicit reply.
C15_FirstExactInDiscoveryOrder ==
    (Resolved /\ Cardinality(Exacts) > 1) =>
        /\ found.err = ""
        /\ found.gvr = EntryGVR(discovery, Nth(Exacts, 1))
        /\ found.namespaced = EntryNamespaced(discovery, Nth(Exacts, 1))
        /\ \A h \in BOOLEAN, reply \in ChoiceReplies :
              FindResource(resourceName, discovery, h, reply) = found

\* C15 witness: two exact matches that differ, the first of which was returned.
C15_Witness ==
    /\ Resolved
    /\ Cardinality(Exacts) > 1
    /\ EntryGVR(discovery, Nth(Exacts, 1)) # EntryGVR(discovery, Nth(Exacts, 2))
    /\ found.gvr = EntryGVR(discovery, Nth(Exacts, 1))

StartsWith(s, prefix) == Len(s) >= Len(prefix) /\ Upto(s, Len(prefix)) = prefix

NotFoundPrefix == "resource \"" \o resourceName \o "\" not found"

\* C16: with no exact and no partial match FindResource fails with an error
\* that starts with 'resource "<input>" not found', returns no resource and
\* issues no elicit, also when a session is present.
C16_NothingMatches ==
    (Resolved /\ Exacts = {} /\ Partials = {}) =>
        /\ StartsWith(found.err, NotFoundPrefix)
        /\ found.gvr = NoGVR
        /\ found.namespaced = FALSE
        /\ found.elicits = <<>>

\* C16 witness: a call with a session against a discovery answer that has
\* resources, none of which matches.
C16_Witness ==
    /\ Resolved
    /\ hasSession
    /\ Positions(discovery) # {}
    /\ Exacts = {}
    /\ Partials = {}
    /\ found.err # ""

\* C17: with no exact match and exactly one partial match FindResource returns
\* that match with its namespaced flag and issues no elicit, with or without a
\* session.
C17_SinglePartialMatch ==
    (Resolved /\ Exacts = {} /\ Cardinality(Partials) = 1) =>
        /\ found.err = ""
        /\ found.gvr = EntryGVR(discovery, Nth(Partials, 1))
        /\ found.namespaced = EntryNamespaced(discovery, Nth(Partials, 1))
        /\ found.elicits = <<>>

\* C17 witness: a call with a session that returned the only partial match, a
\* namespaced resource.
C17_Witness ==
    /\ Resolved
    /\ hasSession
    /\ Exacts = {}
    /\ Cardinality(Partials) = 1
    /\ found.namespaced
    /\ found.gvr = EntryGVR(discovery, Nth(Partials, 1))

\* "<plural>.<version>.<group>" of a candidate
CandidateText(disc, p) ==
    EntryGVR(disc, p).Resource \o "." \o EntryGVR(disc, p).Version
        \o "." \o EntryGVR(disc, p).Group

\* the candidates from the n-th on, each after the separator but the first
RECURSIVE Listed(_, _, _, _)
Listed(disc, S, n, sep) ==
    IF n > Cardinality(S) THEN ""
    ELSE (IF n > 1 THEN sep ELSE "") \o CandidateText(disc, Nth(S, n))
            \o Listed(disc, S, n + 1, sep)

\* C18: with no exact match, two or more partial matches and no session,
\* FindResource fails with 'resource "<input>" not found, did you mean one of
\* these: ' and every partial candidate as <plural>.<version>.<group>, joined
\* by ", " in discovery order; it returns no resource and uses no session.
C18_AmbiguousWithoutSession ==
    (Resolved /\ Exacts = {} /\ Cardinality(Partials) >= 2 /\ ~hasSession) =>
        /\ found.err = NotFoundPrefix \o ", did you mean one of these: "
                          \o Listed(discovery, Partials, 1, ", ")
        /\ found.gvr = NoGVR
        /\ found.namespaced = FALSE
        /\ found.elicits = <<>>

\* C18 witness: a call without a session for which candidates of two groups
\* matched partially.
C18_Witness ==
    /\ Resolved
    /\ ~hasSession
    /\ Exacts = {}
    /\ Cardinality(Partials) >= 2
    /\ EntryGVR(discovery, Nth(Partials, 1)).Group # EntryGVR(discovery, Nth(Partials, 2)).Group
    /\ found.err # ""

\* the candidates from the n-th on as "<n>. <plural>.<version>.<group>", one
\* a line
RECURSIVE Numbered(_, _, _)
Numbered(disc, S, n) ==
    IF n > Cardinality(S) THEN ""
    ELSE (IF n > 1 THEN "\n" ELSE "") \o Itoa(n) \o ". " \o CandidateText(disc, Nth(S, n))
            \o Numbered(disc, S, n + 1)

\* the number a reply chooses: 0 when it has no choice string or the string is
\* not a numeral
ChosenNumber(reply) ==
    IF /\ "choice" \in DOMAIN reply.Content
       /\ reply.Content["choice"].t = "string"
       /\ \E n \in 1..9 : Itoa(n) = reply.Content["choice"].v
    THEN CHOOSE n \in 1..9 : Itoa(n) = reply.Content["choice"].v
    ELSE 0

Ambiguous == Resolved /\ Exacts = {} /\ Cardinality(Partials) >= 2 /\ hasSession

\* what the reply to the elicit decides: the chosen candidate on an accepted
\* choice in 1..n, a user-cancelled error on another action, an invalid-choice
\* error on a choice that is missing, no numeral or out of range, and no
\* resource on any failure
RepliesDecide ==
    /\ Len(found.elicits) = 1
    /\ found.elicits[1].Message =
          "Resource '" \o resourceName \o "' not found. Did you mean one of these?\n"
              \o Numbered(discovery, Partials, 1)
    /\ (~elicitReply.err /\ elicitReply.Action # "accept") =>
          found.err = "user cancelled resource selection"
    /\ (~elicitReply.err /\ elicitReply.Action = "accept"
            /\ ChosenNumber(elicitReply) \in 1..Cardinality(Partials)) =>
          /\ found.err = ""
          /\ found.gvr = EntryGVR(discovery, Nth(Partials, ChosenNumber(elicitReply)))
          /\ found.namespaced =
                EntryNamespaced(discovery, Nth(Partials, ChosenNumber(elicitReply)))
    /\ (~elicitReply.err /\ elicitReply.Action = "accept"
            /\ ChosenNumber(elicitReply) \notin 1..Cardinality(Partials)) =>
          StartsWith(found.err, "invalid choice")
    /\ found.err # "" => found.gvr = NoGVR /\ found.namespaced = FALSE

\* C19, as claimed: with no exact match, two or more partial matches and a
\* session, FindResource issues exactly one elicit that lists the candidates
\* numbered from 1 and asks for a "choice" field, and the reply decides the
\* result (chosen candidate, user-cancelled error, invalid-choice error).
C19_ElicitAsksForChoice ==
    Ambiguous =>
        /\ RepliesDecide
        /\ "choice" \in found.elicits[1].RequestedSchema

\* C19 without the requested field: the one elicit, its numbered candidates and
\* what each reply leads to.
C19_ElicitDecides == Ambiguous => RepliesDecide

\* C19 reached: the second of several candidates was chosen and returned.
C19_Reached ==
    /\ Ambiguous
    /\ ChosenNumber(elicitReply) = 2
    /\ found.err = ""
    /\ found.gvr = EntryGVR(discovery, Nth(Partials, 2))

\* an input Kind.version.group whose second segment is a version
CarriesVersion(name) ==
    ParseKindArg(name).hasGVK /\ ParseKindArg(name).gvk.Version \in {"v1", "v2"}

\* the places whose Kind, group and version equal the parsed ones, the
\* denylisted ones left out
VersionedExacts(name, disc) ==
    {p \in Positions(disc) :
        /\ EntryKind(disc, p) = ParseKindArg(name).gvk.Kind
        /\ EntryGVR(disc, p).Group = ParseKindArg(name).gvk.Group
        /\ EntryGVR(disc, p).Version = ParseKindArg(name).gvk.Version
        /\ ~Denylisted(EntryGVR(disc, p))}

\* C20, as claimed: for an input Kind.version.group an entry is an exact match
\* only if Kind, group and version all equal the parsed values; an entry with
\* exactly that Kind, group and version is an exact match and is returned, and
\* an entry of another version is never returned as one.
C20_VersionIsMatched ==
    (Resolved /\ CarriesVersion(resourceName)) =>
        /\ VersionedExacts(resourceName, discovery) # {} =>
              /\ found.err = ""
              /\ found.elicits = <<>>
              /\ \E p \in VersionedExacts(resourceName, discovery) :
                    found.gvr = EntryGVR(discovery, p)
        /\ (found.err = "" /\ found.elicits = <<>> /\ Cardinality(Partials) >= 2) =>
              \E p \in VersionedExacts(resourceName, discovery) :
                    found.gvr = EntryGVR(discovery, p)

(***************************************************************************)
(* Properties of the /mcp chain and of the fan-out over the clusters.      *)
(***************************************************************************)
\* the clusters of a request: the aud claim in order, without the entries
\* equal to the MCP audience
ClustersOfToken == SelectSeq(token.Audience, LAMBDA a : a # Audience)

HandlerRan == pc # "idle"

\* C11: a request whose token fails verification is answered with 401 and
\* reaches neither the logging handler, nor the MCP handler and its logging
\* middleware, nor a tool handler; whenever a tool handler runs, the token
\* info holds a non-empty list of strings as audience and the token string as
\* bearer_token, and the handler's reads of them do not fail.
C11_RejectedBeforeAnyHandler ==
    /\ auth.status = "invalid_token" =>
          /\ httpStatus = 401
          /\ stage = "responded"
          /\ ~HandlerRan
          /\ calls = <<>>
    /\ stage \in {"loggingHandler", "loggingMiddleware", "tool"} => auth.status = "ok"
    /\ HandlerRan =>
          /\ auth.status = "ok"
          /\ Len(auth.info.Extra.audience) >= 1
          /\ \A i \in 1..Len(auth.info.Extra.audience) :
                \E j \in 1..Len(token.Audience) :
                    auth.info.Extra.audience[i] = token.Audience[j]
          /\ auth.info.Extra.bearer_token = token.Raw
          /\ result.status # "panic"

\* C11 witness: a call of resource_list with a token that holds no cluster URL
\* was answered with 401.
C11_Witness ==
    /\ tool = "resource_list"
    /\ auth.status = "invalid_token"
    /\ httpStatus = 401
    /\ token.Audience = <<"k-mcp">>

ListCalls == SelectSeq(calls, LAMBDA c : c.op = "List" /\ c.ok)

\* the items of the first n List calls, one cluster after the other
RECURSIVE ItemsUpTo(_)
ItemsUpTo(n) ==
    IF n = 0 THEN <<>> ELSE ItemsUpTo(n - 1) \o ListCalls[n].obj.Items

\* C12: the structured result of resource_list is items(c1) ++ ... ++
\* items(cn) for the clusters c1..cn in audience order without the MCP
\* audience, every cluster's items in the order the cluster returned them.
C12_ListConcatenatesInClusterOrder ==
    tool = "resource_list" =>
        /\ results = ItemsUpTo(Len(ListCalls))
        /\ \A i \in 1..Len(ListCalls) : ListCalls[i].host = ClustersOfToken[i]
        /\ (pc = "done" /\ result.status = "result") =>
              /\ Len(ListCalls) = Len(ClustersOfToken)
              /\ result.text = ListMessage(Len(results), input)

\* C12 witness: a list over two clusters that returned different, non-empty
\* item lists.
C12_Witness ==
    /\ tool = "resource_list"
    /\ pc = "done"
    /\ result.status = "result"
    /\ Len(ListCalls) = 2
    /\ Len(ListCalls[1].obj.Items) = 2
    /\ ListCalls[2].obj.Items # <<>>
    /\ ListCalls[1].obj.Items # ListCalls[2].obj.Items
    /\ ListCalls[1].host # ListCalls[2].host

IsElicit(c) == c.op \in {"ElicitChoice", "ElicitNamespace", "ElicitConfirm"}

\* C13: within one tool call the clusters are visited one after the other in
\* audience order: every call goes to the cluster of its pass, a cluster's
\* first call builds its clients, a call for the next cluster is issued only
\* when every earlier call, elicits included, has returned without an error.
C13_SequentialFanOut ==
    /\ \A k \in 1..Len(calls) :
          /\ calls[k].cluster \in 1..Len(ClustersOfToken)
          /\ calls[k].host = ClustersOfToken[calls[k].cluster]
    /\ calls # <<>> => calls[1].cluster = 1 /\ calls[1].op = "LoadRestConfig"
    /\ \A k \in 1..(Len(calls) - 1) :
          /\ calls[k].ok
          /\ \/ calls[k + 1].cluster = calls[k].cluster /\ calls[k + 1].op # "LoadRestConfig"
             \/ calls[k + 1].cluster = calls[k].cluster + 1 /\ calls[k + 1].op = "LoadRestConfig"
    /\ calls # <<>> =>
          /\ ci \in 1..Len(ClustersOfToken)
          /\ calls[Len(calls)].cluster \in {ci - 1, ci}

\* C13 witness: a tool call that elicited on its first cluster and has gone on
\* to a second cluster with another URL.
C13_Witness ==
    /\ Len(calls) > 0
    /\ calls[Len(calls)].cluster = 2
    /\ calls[Len(calls)].host # calls[1].host
    /\ \E j \in 1..Len(calls) : calls[j].cluster = 1 /\ IsElicit(calls[j])
    /\ \E j \in 1..Len(calls) : calls[j].cluster = 2 /\ IsElicit(calls[j])

(***************************************************************************)
(* Properties of resource_apply.                                           *)
(***************************************************************************)
CallIndices == 1..Len(calls)
IsDryRun(c) == c.op = "Apply" /\ c.dryRun
IsRealApply(c) == c.op = "Apply" /\ ~c.dryRun
IsConfirm(c) == c.op = "ElicitConfirm"

\* C3: when the dry-run apply of object k fails on a cluster, that cluster gets
\* no real apply for object k or a later one and no confirmation elicit, and
\* the tool returns an error that names Kind/name.
C3_DryRunFailureAborts ==
    \A i \in CallIndices :
        (IsDryRun(calls[i]) /\ ~calls[i].ok) =>
            /\ \A j \in CallIndices :
                  calls[j].cluster = calls[i].cluster =>
                      /\ ~(IsRealApply(calls[j]) /\ calls[j].doc >= calls[i].doc)
                      /\ ~IsConfirm(calls[j])
            /\ pc = "done"
            /\ result = Return("error", "dry-run validation failed for "
                                  \o calls[i].obj.Kind \o "/" \o calls[i].obj.Name)

\* C3 witness: the dry-run of the second object failed on the second cluster,
\* after the first cluster was applied.
C3_Witness ==
    \E i \in CallIndices :
        /\ IsDryRun(calls[i]) /\ ~calls[i].ok
        /\ calls[i].cluster = 2 /\ calls[i].doc = 2

\* C4: on each cluster every object's dry-run apply has succeeded before the
\* confirmation elicit is issued, and the elicit has returned accept with
\* confirm=true before the first real apply.
C4_DryRunThenElicitThenApply ==
    /\ \A j \in CallIndices :
          IsConfirm(calls[j]) =>
              \A d \in 1..Len(unstructuredList) :
                  \E i \in 1..(j - 1) :
                      /\ IsDryRun(calls[i]) /\ calls[i].ok
                      /\ calls[i].cluster = calls[j].cluster /\ calls[i].doc = d
    /\ \A k \in CallIndices :
          IsRealApply(calls[k]) =>
              \E j \in 1..(k - 1) :
                  /\ IsConfirm(calls[j]) /\ calls[j].cluster = calls[k].cluster
                  /\ ~calls[j].reply.err
                  /\ calls[j].reply.Action = "accept"
                  /\ "confirm" \in DOMAIN calls[j].reply.Content
                  /\ calls[j].reply.Content["confirm"] = Bool("true")

\* C4 witness: two objects were really applied on the second cluster.
C4_Witness ==
    \E k \in CallIndices :
        IsRealApply(calls[k]) /\ calls[k].cluster = 2 /\ calls[k].doc = 2

\* the confirmation elicit came back, and not with accept and confirm=true
Declined(reply) ==
    /\ ~reply.err
    /\ \/ reply.Action # "accept"
       \/ "confirm" \notin DOMAIN reply.Content
       \/ reply.Content["confirm"] # Bool("true")

\* C5: when the confirmation elicit of a cluster returns another action than
\* accept, or accept with confirm missing, non-boolean or false, the tool
\* returns a non-error result with one of the two cancellation texts and
\* issues no real apply on that cluster or a later one.
C5_DeclineCancelsWithoutApply ==
    \A j \in CallIndices :
        (IsConfirm(calls[j]) /\ Declined(calls[j].reply)) =>
            /\ pc = "done"
            /\ result.status = "result"
            /\ result.text \in {"Operation cancelled by user",
                                "Operation cancelled - user did not confirm"}
            /\ \A k \in CallIndices :
                  IsRealApply(calls[k]) => calls[k].cluster < calls[j].cluster

\* C5 witness: the elicit of the first of two clusters was accepted without a
\* boolean confirm.
C5_Witness ==
    \E j \in CallIndices :
        /\ IsConfirm(calls[j]) /\ calls[j].cluster = 1
        /\ calls[j].reply.Action = "accept"
        /\ ~IsBool(calls[j].reply.Content, "confirm")
        /\ Len(apiServerUrls) = 2

(***************************************************************************)
(* Properties of the token verifier.                                       *)
(***************************************************************************)
\* how many entries of the token's aud claim are the MCP audience
McpCount == Cardinality({i \in 1..Len(token.Audience) : token.Audience[i] = Audience})

\* the token passes the checks that come before the audience
PassesTimeChecks ==
    /\ ~token.parseErr /\ token.Valid
    /\ token.ExpiresAt # Nil /\ token.ExpiresAt >= now
    /\ (token.NotBefore = Nil \/ token.NotBefore <= now)

LoadedHosts ==
    LET loads == SelectSeq(calls, LAMBDA c : c.op = "LoadRestConfig")
    IN  [i \in 1..Len(loads) |-> loads[i].host]

C8_ExpiryAndNotBefore ==
    auth.status # "none" =>
        ((\/ token.ExpiresAt = Nil
          \/ token.ExpiresAt <= now
          \/ (token.NotBefore # Nil /\ token.NotBefore > now))
            => auth.status = "invalid_token")

\* C9: a token without aud, or whose aud holds nothing but the MCP audience, is
\* rejected with invalid_token, and an accepted token has a non-empty
\* api_server_urls.
C9_NonEmptyApiServerUrls ==
    auth.status # "none" =>
        /\ McpCount = Len(token.Audience) => auth.status = "invalid_token"
        /\ auth.status = "ok" => Len(apiServerUrls) >= 1

\* C9 witness: a token that passes every check but carries only the MCP
\* audience was rejected.
C9_Witness ==
    /\ auth.status = "invalid_token"
    /\ PassesTimeChecks
    /\ Len(token.Audience) >= 1
    /\ McpCount = Len(token.Audience)

\* C10, as documented: a token is accepted only if its aud holds exactly three
\* audiences.
C10_ExactlyThreeAudiences ==
    auth.status = "ok" => Len(token.Audience) = 3

(***************************************************************************)
(* FindResource on the plural names a discovery answer lists.              *)
(***************************************************************************)
\* the APIResourceLists of the plural-name calls
PluralLists ==
    { [GroupVersion |-> "v1",
       APIResources |-> <<Res("pods", "Pod", TRUE), Res("services", "Service", TRUE)>>],
      [GroupVersion |-> "apiregistration.k8s.io/v1",
       APIResources |-> <<Res("apiservices", "APIService", FALSE)>>],
      [GroupVersion |-> "apps/v1",
       APIResources |-> <<Res("deployments", "Deployment", TRUE),
                          Res("replicasets", "ReplicaSet", TRUE)>>],
      [GroupVersion |-> "batch/v1",
       APIResources |-> <<Res("jobs", "Job", TRUE), Res("cronjobs", "CronJob", TRUE)>>],
      [GroupVersion |-> "rbac.authorization.k8s.io/v1",
       APIResources |-> <<Res("roles", "Role", TRUE),
                          Res("clusterroles", "ClusterRole", FALSE)>>] }

PluralDiscoveries ==
    {[err |-> FALSE, lists |-> q] :
        q \in {r \in SeqsUpTo(PluralLists, MaxLists) : NoRepeat(r) /\ r # <<>>}}

\* the plural names a discovery answer lists
PluralsOf(disc) ==
    UNION {{disc.lists[i].APIResources[j].Name :
                j \in 1..Len(disc.lists[i].APIResources)} : i \in 1..Len(disc.lists)}

InitPlural ==
    /\ RunIdle
    /\ discovery \in PluralDiscoveries
    /\ resourceName \in PluralsOf(discovery)
    /\ hasSession \in BOOLEAN
    /\ elicitReply = NoReply
    /\ found = NotFound
    /\ findPc = "call"
    /\ AuthIdle
    /\ ToolIdle

NextPlural == FindResourceCall

SpecPlural == InitPlural /\ [][NextPlural]_vars

\* the places of the discovery answer whose plural name is the input and that
\* are not denylisted
PluralPositions ==
    {p \in Positions(discovery) :
        /\ EntryGVR(discovery, p).Resource = resourceName
        /\ ~Denylisted(EntryGVR(discovery, p))}

NamespacedIn(host, gvr) ==
    \E p \in Positions(ClusterDiscovery(host)) :
        /\ EntryGVR(ClusterDiscovery(host), p) = gvr
        /\ EntryNamespaced(ClusterDiscovery(host), p)

IsNamespaceElicit(c) == c.op = "ElicitNamespace"
IsGet(c) == c.op = "Get"

\* the namespace elicit was answered with an action other than accept
NotAccepted(c) == IsNamespaceElicit(c) /\ ~c.reply.err /\ c.reply.Action # "accept"

\* the namespace elicit was accepted with a non-empty string
AcceptedWithNamespace(c) ==
    /\ IsNamespaceElicit(c)
    /\ ~c.reply.err
    /\ c.reply.Action = "accept"
    /\ IsString(c.reply.Content, "namespace")
    /\ c.reply.Content["namespace"].v # ""

\* the namespace elicit was accepted without a usable namespace
AcceptedWithoutNamespace(c) ==
    /\ IsNamespaceElicit(c)
    /\ ~c.reply.err
    /\ c.reply.Action = "accept"
    /\ ~(IsString(c.reply.Content, "namespace") /\ c.reply.Content["namespace"].v # "")

\* the call after the k-th is the GET of the same cluster, in this namespace
FollowedByGetIn(k, namespace) ==
    IF k = Len(calls)
    THEN pc = "getItem" /\ input.Namespace = namespace
    ELSE /\ IsGet(calls[k + 1])
         /\ calls[k + 1].cluster = calls[k].cluster
         /\ calls[k + 1].namespace = namespace

\* C22: resource_get issues the namespace elicit exactly when the resolved
\* resource is namespaced and the namespace is empty; an answer other than
\* accept fails the tool with the user-cancelled error and no GET follows on
\* that or a later cluster; an accepted non-empty namespace is the namespace
\* of the GET.
C22_NamespaceElicit ==
    tool = "resource_get" =>
        /\ \A k \in CallIndices :
              IsNamespaceElicit(calls[k]) =>
                  /\ NamespacedIn(calls[k].host, calls[k].gvr)
                  /\ calls[k].namespace = ""
        /\ (pc = "getItem"
              /\ ~\E k \in CallIndices :
                     IsNamespaceElicit(calls[k]) /\ calls[k].cluster = ci) =>
                  ~(NamespacedIn(urlAt(apiServerUrls, ci), pending.gvr)
                      /\ input.Namespace = "")
        /\ \A k \in CallIndices :
              /\ NotAccepted(calls[k]) =>
                    /\ k = Len(calls)
                    /\ pc = "done"
                    /\ result = Return("error", "user cancelled namespace selection")
              /\ AcceptedWithNamespace(calls[k]) =>
                    FollowedByGetIn(k, calls[k].reply.Content["namespace"].v)

\* C22 witness: the first cluster's elicit was accepted with a namespace, its
\* GET went out, and so did the GET of the second cluster.
C22_Witness ==
    /\ tool = "resource_get"
    /\ \E j, k \in CallIndices :
          /\ j < k
          /\ AcceptedWithNamespace(calls[j])
          /\ IsGet(calls[j + 1])
          /\ calls[k].cluster = 2
          /\ IsGet(calls[k])

\* C23: a namespace elicit of resource_get accepted with a missing, non-string
\* or empty namespace makes the GET go to namespace "default"; no GET of a
\* namespaced resource goes out with an empty namespace.
C23_DefaultNamespace ==
    tool = "resource_get" =>
        \A k \in CallIndices :
            /\ AcceptedWithoutNamespace(calls[k]) => FollowedByGetIn(k, "default")
            /\ (IsGet(calls[k]) /\ NamespacedIn(calls[k].host, calls[k].gvr)) =>
                    calls[k].namespace # ""

\* C23 witness: a GET in "default" after an elicit accepted without a usable
\* namespace.
C23_Witness ==
    /\ tool = "resource_get"
    /\ \E k \in CallIndices :
          /\ AcceptedWithoutNamespace(calls[k])
          /\ k < Len(calls)
          /\ IsGet(calls[k + 1])
          /\ calls[k + 1].namespace = "default"
          /\ NamespacedIn(calls[k + 1].host, calls[k + 1].gvr)

(***************************************************************************)
(* Properties of the documents of resource_apply.                          *)
(***************************************************************************)
\* the handler got past the reads of the token info
ApplyStarted == tool = "resource_apply" /\ pc # "idle" /\ result.status # "panic"

\* no fragment of the input is an object: all are blank or empty documents
YieldsNoObject == \A i \in 1..Len(input) : input[i].t \in {"blank", "null"}

\* some fragment of the input fails to decode
HasUndecodable == \E i \in 1..Len(input) : input[i].t = "bad"

\* C24: resource_apply with input that yields no object (empty, only
\* separators and whitespace, only empty documents) fails with the
\* no-resources error before any client is built and before any discovery,
\* dry-run, elicit or apply; with a fragment that fails to decode it fails
\* likewise with the decode error.
C24_NoObjectsFailsFirst ==
    ApplyStarted =>
        /\ YieldsNoObject =>
              /\ pc = "done"
              /\ result = Return("error", "no valid resources found in the provided YAML")
              /\ calls = <<>>
        /\ HasUndecodable =>
              /\ pc = "done"
              /\ result = Return("error", "failed to decode YAML document")
              /\ calls = <<>>

\* C24 witness: an input of an object and an undecodable fragment was refused,
\* and so was one of a blank fragment and an empty document.
C24_Witness ==
    /\ ApplyStarted
    /\ calls = <<>>
    /\ Len(input) = 2
    /\ \/ input[1].t = "obj" /\ input[2].t = "bad"
       \/ input[1].t = "blank" /\ input[2].t = "null"
    /\ result.status = "error"

(***************************************************************************)
(* The decoding of input.ResourceYAML, from its text.                      *)
(***************************************************************************)
\* the most documents of a YAML stream
MaxStream == 3

\* strings.Split
RECURSIVE Split(_, _)
Split(s, sep) ==
    LET i == Index(s, sep)
    IN  IF i = -1 THEN <<s>>
        ELSE <<Upto(s, i)>> \o Split(From(s, i + Len(sep)), sep)

\* unicode.IsSpace on the characters of the streams
IsSpace(c) == c \in {" ", "\n", "\t"}

\* strings.TrimSpace
RECURSIVE TrimSpace(_)
TrimSpace(s) ==
    IF Len(s) = 0 THEN s
    ELSE IF IsSpace(SubSeq(s, 1, 1)) THEN TrimSpace(From(s, 1))
    ELSE IF IsSpace(SubSeq(s, Len(s), Len(s))) THEN TrimSpace(Upto(s, Len(s) - 1))
    ELSE s

\* the documents a stream is made of, with what each decodes to
YAMLDocuments ==
    { [text |-> "{kind: Pod, name: a}", object |-> Fragment("obj", "Pod", "a", "")],
      [text |-> "{kind: Job, name: x---y}", object |-> Fragment("obj", "Job", "x---y", "")],
      [text |-> "null", object |-> Fragment("null", "", "", "")],
      [text |-> " \n", object |-> Fragment("blank", "", "", "")],
      [text |-> "{kind: Pod", object |-> Fragment("bad", "", "", "")] }

\* the streams: documents with a line "---" between them
YAMLStreams ==
    {Join(q, "\n---\n") :
        q \in {r \in AllSeqs({d.text : d \in YAMLDocuments}, MaxStream) : r # <<>>}}

\* yaml.NewYAMLOrJSONDecoder(doc).Decode(&obj) on a trimmed fragment: the
\* object of a document, no object for null, an error for any other text
DecodeDocument(doc) ==
    IF \E d \in YAMLDocuments : TrimSpace(d.text) = doc
    THEN (CHOOSE d \in YAMLDocuments : TrimSpace(d.text) = doc).object
    ELSE Fragment("bad", "", "", "")

\* doc = strings.TrimSpace(doc) and the decoding of what is left
FragmentOf(doc) ==
    IF TrimSpace(doc) = "" THEN Fragment("blank", "", "", "")
    ELSE DecodeDocument(TrimSpace(doc))

FragmentsOf(docs) == [i \in 1..Len(docs) |-> FragmentOf(docs[i])]

InitSplit ==
    /\ RunIdle
    /\ input \in YAMLStreams
    /\ pc = "yaml"
    /\ unstructuredList = <<>>
    /\ ci = 0
    /\ oi = 0
    /\ pending = NoPending
    /\ resourceInfos = <<>>
    /\ resourceSummaries = <<>>
    /\ appliedResources = <<>>
    /\ operationSummaries = <<>>
    /\ calls = <<>>
    /\ result = NoResult
    /\ results = <<>>
    /\ tool = "resource_apply"
    /\ FindIdle
    /\ AuthIdle

\* docs := strings.Split(input.ResourceYAML, "---") and the loop over docs
DecodeDocuments ==
    /\ tool = "resource_apply"
    /\ pc = "yaml"
    /\ LET docs == Split(input, "---")
           decoded == Decode(FragmentsOf(docs))
       IN  IF decoded.err
           THEN /\ result' = Return("error", "failed to decode YAML document")
                /\ UNCHANGED unstructuredList
           ELSE IF Len(decoded.list) = 0
           THEN /\ result' = Return("error", "no valid resources found in the provided YAML")
                /\ UNCHANGED unstructuredList
           ELSE /\ unstructuredList' = decoded.list
                /\ UNCHANGED result
    /\ pc' = "decoded"
    /\ UNCHANGED <<input, ci, oi, pending, resourceInfos, resourceSummaries,
                   appliedResources, operationSummaries, calls, results, tool,
                   findVars, authVars, runVars>>

NextSplit == DecodeDocuments

SpecSplit == InitSplit /\ [][NextSplit]_vars

\* the documents of a stream: what stands between the lines "---"
DocumentsOf(stream) == Split(stream, "\n---\n")

\* what a document of the stream is
DocumentAt(stream, i) ==
    CHOOSE d \in YAMLDocuments : d.text = DocumentsOf(stream)[i]

\* the documents of the stream that are objects, in order
ObjectsOf(stream) ==
    LET all == [i \in 1..Len(DocumentsOf(stream)) |-> DocumentAt(stream, i).object]
    IN  SelectSeq(all, LAMBDA o : o.t = "obj")

\* C25: the objects resource_apply works on are, in order, the documents of
\* the stream that are not empty after trimming and decode to a non-empty
\* object, at most as many as the stream has documents; "---" separates
\* documents only at the top level of the stream, not inside the content of a
\* document.
C25_ObjectsAreTheDocuments ==
    (pc = "decoded"
        /\ \A i \in 1..Len(DocumentsOf(input)) : DocumentAt(input, i).object.t # "bad") =>
        /\ unstructuredList = ObjectsOf(input)
        /\ Len(unstructuredList) <= Len(DocumentsOf(input))
        /\ result.status = "error" <=> ObjectsOf(input) = <<>>

(***************************************************************************)
(* Properties of the applies of resource_apply.                            *)
(***************************************************************************)
\* the calls of one kind issued on a cluster
CallsOn(cluster, Kind(_)) ==
    {k \in CallIndices : calls[k].cluster = cluster /\ Kind(calls[k])}

\* both calls are of the kind, on one cluster, and the first is the earlier
InDocumentOrder(i, j, Kind(_)) ==
    (Kind(calls[i]) /\ Kind(calls[j]) /\ calls[i].cluster = calls[j].cluster /\ i < j)
        => calls[i].doc < calls[j].doc

\* C26: on one cluster the dry-runs go out in document order and so do the
\* real applies; when the real apply of a document fails, the documents before
\* it have been applied on that cluster, no later document is attempted, no
\* later cluster is contacted and the tool returns an error.
C26_AppliesInDocumentOrder ==
    tool = "resource_apply" =>
        /\ \A i, j \in CallIndices :
              InDocumentOrder(i, j, IsDryRun) /\ InDocumentOrder(i, j, IsRealApply)
        /\ \A i \in CallIndices :
              (IsRealApply(calls[i]) /\ ~calls[i].ok) =>
                  /\ \A d \in 1..(calls[i].doc - 1) :
                        \E j \in 1..(i - 1) :
                            /\ IsRealApply(calls[j]) /\ calls[j].ok
                            /\ calls[j].cluster = calls[i].cluster
                            /\ calls[j].doc = d
                  /\ i = Len(calls)
                  /\ pc = "done"
                  /\ result = Return("error", "failed to apply "
                                        \o calls[i].obj.Kind \o "/" \o calls[i].obj.Name)

\* C26 witness: the real apply of the second document failed after the first
\* was applied.
C26_Witness ==
    /\ tool = "resource_apply"
    /\ calls # <<>>
    /\ IsRealApply(calls[Len(calls)])
    /\ ~calls[Len(calls)].ok
    /\ calls[Len(calls)].doc = 2
    /\ pc = "done"

\* the cluster was confirmed and worked off without a failure
Finished(cluster) ==
    \/ \E k \in CallIndices : calls[k].cluster > cluster
    \/ /\ pc = "done"
       /\ result.status = "result"
       /\ StartsWith(result.text, "Successfully processed ")

\* the lines of the confirmation message
Lines(c) == Split(c.text, "\n")

\* C27: on a cluster the user confirms, the n objects get exactly n dry-runs,
\* then exactly one confirmation elicit whose message has one line
\* "- apply <Kind>/<name>" per object in document order, then exactly n real
\* applies; every apply carries the field manager "k-mcp"; the success text
\* counts the objects really applied.
C27_CountsOfAConfirmedApply ==
    tool = "resource_apply" =>
        /\ \A j \in CallIndices :
              (IsConfirm(calls[j]) /\ confirmed(calls[j].reply)
                  /\ ~calls[j].reply.err /\ calls[j].reply.Action = "accept") =>
                  LET c == calls[j].cluster
                      n == Len(unstructuredList)
                  IN  /\ Cardinality(CallsOn(c, IsDryRun)) = n
                      /\ \A k \in CallsOn(c, IsDryRun) : k < j
                      /\ CallsOn(c, IsConfirm) = {j}
                      /\ Len(Lines(calls[j])) = n
                      /\ \A d \in 1..n :
                            Contains(Lines(calls[j])[d],
                                     "- apply " \o unstructuredList[d].Kind \o "/"
                                        \o unstructuredList[d].Name)
                      /\ \A k \in CallsOn(c, IsRealApply) : k > j
                      /\ Finished(c) => Cardinality(CallsOn(c, IsRealApply)) = n
        /\ \A k \in CallIndices :
              calls[k].op = "Apply" => calls[k].text = "k-mcp"
        /\ (pc = "done" /\ result.status = "result"
              /\ StartsWith(result.text, "Successfully processed ")) =>
                  StartsWith(result.text,
                      "Successfully processed "
                        \o Itoa(Cardinality({k \in CallIndices :
                                               IsRealApply(calls[k]) /\ calls[k].ok}))
                        \o " resource(s)")

\* C27 witness: two objects were applied on two confirmed clusters.
C27_Witness ==
    /\ tool = "resource_apply"
    /\ pc = "done"
    /\ StartsWith(result.text, "Successfully processed 4 resource(s)")
    /\ Cardinality(CallsOn(2, IsRealApply)) = 2

(***************************************************************************)
(* The calls the three tools send to a cluster.                            *)
(***************************************************************************)
\* what a tool calls that is neither a read nor a write of a cluster: building
\* the clients of a cluster and the elicits to the MCP client
LocalCalls == {"LoadRestConfig", "ElicitChoice", "ElicitNamespace", "ElicitConfirm"}

\* the read calls to a cluster
ReadCalls == {"Discovery", "List", "Get"}

\* C28: no tool issues a delete; resource_list and resource_get send a cluster
\* only read calls (discovery, list, get).
C28_NoDeleteAndReadOnlyTools ==
    \A k \in CallIndices :
        /\ calls[k].op # "Delete"
        /\ calls[k].op \in LocalCalls \cup ReadCalls \cup {"Apply"}
        /\ tool \in {"resource_list", "resource_get"} =>
              /\ calls[k].op \in LocalCalls \cup ReadCalls
              /\ calls[k].op # "ElicitConfirm"
        /\ calls[k].op = "List" => tool = "resource_list"
        /\ calls[k].op = "Get" => tool = "resource_get"

\* C28 witness: resource_get returned the object of two clusters, and
\* resource_list the objects of two.
C28_Witness ==
    /\ tool \in {"resource_list", "resource_get"}
    /\ pc = "done"
    /\ result.status = "result"
    /\ Cardinality({k \in CallIndices : calls[k].op \in {"List", "Get"}}) = 2
    /\ Cardinality({k \in CallIndices : calls[k].op = "Discovery"}) = 2

(***************************************************************************)
(* A tool call whose request is cancelled while the handler runs.          *)
(***************************************************************************)
\* the context of the request is cancelled: the client went away or the
\* server shuts down; the handlers take it as "_ context.Context" and hand
\* context.Background() to every List, Get, Apply and Elicit, so no step of
\* a handler reads it
CancelRequest ==
    /\ cancelledAt = Nil
    /\ stage # "responded"
    /\ pc # "done"
    /\ cancelledAt' = Len(calls)
    /\ UNCHANGED <<Audience, token, now, auth, stage, httpStatus, findVars, toolVars,
                   runVars>>

InitCancel == InitTools

NextCancel == NextTools \/ CancelRequest

SpecCancel == InitCancel /\ [][NextCancel]_vars

\* C29: every outbound Kubernetes call and every elicit is bound to the
\* cancellation of the request: once the request is cancelled, no further
\* call or elicit goes out.
C29_NoCallAfterCancellation ==
    cancelledAt # Nil => Len(calls) = cancelledAt

(***************************************************************************)
(* Server.Run: the listener goroutine, the select and the shutdown.        *)
(***************************************************************************)
\* the most connections that are busy at a time
MaxConns == 1

\* the seconds of the timeout of shutdownCtx
Grace == 10

\* signal.Notify(sigChan, syscall.SIGINT, syscall.SIGHUP, syscall.SIGTERM)
Signals == {"SIGINT", "SIGHUP", "SIGTERM"}

\* Run has built the server and started the goroutine of ListenAndServe
InitRun ==
    /\ sigChan = ""
    /\ ctxDone = FALSE
    /\ listener = "starting"
    /\ serverErr = ""
    /\ conns = 0
    /\ elapsed = 0
    /\ runPc = "select"
    /\ runResult = "none"
    /\ taken = ""
    /\ firstEvent = ""
    /\ FindIdle
    /\ AuthIdle
    /\ ToolIdle

\* the first of the events the select waits for
First(event) == IF firstEvent = "" THEN event ELSE firstEvent

\* a signal is delivered into sigChan, which holds one
Notify ==
    /\ runPc # "returned"
    /\ sigChan = ""
    /\ \E sig \in Signals : sigChan' = sig
    /\ firstEvent' = First("signal")
    /\ UNCHANGED <<ctxDone, listener, serverErr, conns, elapsed, runPc, runResult, taken,
                   findVars, authVars, toolVars>>

\* the caller cancels the context it gave to Run
CancelContext ==
    /\ runPc = "select"
    /\ ~ctxDone
    /\ ctxDone' = TRUE
    /\ firstEvent' = First("cancel")
    /\ UNCHANGED <<sigChan, listener, serverErr, conns, elapsed, runPc, runResult, taken,
                   findVars, authVars, toolVars>>

\* httpServer.ListenAndServe got its listener and serves
Listen ==
    /\ runPc = "select"
    /\ listener = "starting"
    /\ listener' = "serving"
    /\ UNCHANGED <<sigChan, ctxDone, serverErr, conns, elapsed, runPc, runResult, taken,
                   firstEvent, findVars, authVars, toolVars>>

\* httpServer.ListenAndServe returned an error other than ErrServerClosed:
\* the goroutine is at its send into serverErr
ListenFails ==
    /\ runPc = "select"
    /\ listener \in {"starting", "serving"}
    /\ listener' = "erred"
    /\ conns' = 0
    /\ firstEvent' = First("listen")
    /\ UNCHANGED <<sigChan, ctxDone, serverErr, elapsed, runPc, runResult, taken,
                   findVars, authVars, toolVars>>

\* mutant: serverErr is made without a buffer, a channel with no slot
serverErrCap_Unbuffered == Len(<<>>)

\* make(chan error, 1)
serverErrCap == 1

\* the values serverErr holds
Buffered(ch) == IF ch = "" THEN 0 ELSE 1

\* serverErr <- err: the send goes through when the buffer has room, and the
\* goroutine ends
SendServerErr ==
    /\ listener = "erred"
    /\ Buffered(serverErr) < serverErrCap
    /\ serverErr' = "listen error"
    /\ listener' = "failed"
    /\ UNCHANGED <<sigChan, ctxDone, conns, elapsed, runPc, runResult, taken, firstEvent,
                   findVars, authVars, toolVars>>

\* a connection starts a request
Accept ==
    /\ runPc = "select"
    /\ listener = "serving"
    /\ conns < MaxConns
    /\ conns' = conns + 1
    /\ UNCHANGED <<sigChan, ctxDone, listener, serverErr, elapsed, runPc, runResult, taken,
                   firstEvent, findVars, authVars, toolVars>>

\* a connection becomes idle
Idle ==
    /\ conns > 0
    /\ runPc # "returned"
    /\ conns' = conns - 1
    /\ UNCHANGED <<sigChan, ctxDone, listener, serverErr, elapsed, runPc, runResult, taken,
                   firstEvent, findVars, authVars, toolVars>>

\* case sig := <-sigChan: cancel() and on to the shutdown
SelectSignal ==
    /\ runPc = "select"
    /\ sigChan # ""
    /\ sigChan' = ""
    /\ ctxDone' = TRUE
    /\ taken' = "signal"
    /\ runPc' = "shutdown"
    /\ UNCHANGED <<listener, serverErr, conns, elapsed, runResult, firstEvent,
                   findVars, authVars, toolVars>>

\* case <-ctx.Done(): on to the shutdown
SelectDone ==
    /\ runPc = "select"
    /\ ctxDone
    /\ taken' = "ctx"
    /\ runPc' = "shutdown"
    /\ UNCHANGED <<sigChan, ctxDone, listener, serverErr, conns, elapsed, runResult,
                   firstEvent, findVars, authVars, toolVars>>

\* case err := <-serverErr: return err, and the deferred cancel()
SelectServerErr ==
    /\ runPc = "select"
    /\ serverErr # ""
    /\ runResult' = serverErr
    /\ serverErr' = ""
    /\ ctxDone' = TRUE
    /\ taken' = "serverErr"
    /\ runPc' = "returned"
    /\ UNCHANGED <<sigChan, listener, conns, elapsed, firstEvent,
                   findVars, authVars, toolVars>>

\* a second of the timeout of shutdownCtx passes
Tick ==
    /\ runPc = "shutdown"
    /\ elapsed < Grace
    /\ elapsed' = elapsed + 1
    /\ UNCHANGED <<sigChan, ctxDone, listener, serverErr, conns, runPc, runResult, taken,
                   firstEvent, findVars, authVars, toolVars>>

\* mutant: a shutdown that ran into its timeout counts as complete
deadlineExceeded_Nil == "nil"

\* ctx.Err() of shutdownCtx after its timeout
deadlineExceeded == "context deadline exceeded"

\* httpServer.Shutdown(shutdownCtx) returns, and Run with it: the error of
\* closing the listener (or nil) once every connection is idle, the error of
\* shutdownCtx once its timeout has passed
ShutdownReturns ==
    /\ runPc = "shutdown"
    /\ \/ /\ conns = 0
          /\ \E lnerr \in IF listener = "serving" THEN {"", "close error"} ELSE {""} :
                runResult' = IF lnerr = "" THEN "nil" ELSE lnerr
       \/ /\ elapsed = Grace
          /\ runResult' = deadlineExceeded
    /\ listener' = IF listener \in {"starting", "serving"} THEN "closed" ELSE listener
    /\ runPc' = "returned"
    /\ UNCHANGED <<sigChan, ctxDone, serverErr, conns, elapsed, taken, firstEvent,
                   findVars, authVars, toolVars>>

NextRun ==
    \/ Notify
    \/ CancelContext
    \/ Listen
    \/ ListenFails
    \/ SendServerErr
    \/ Accept
    \/ Idle
    \/ SelectSignal
    \/ SelectDone
    \/ SelectServerErr
    \/ Tick
    \/ ShutdownReturns

\* the select goes on once a case is ready, a send that has room goes
\* through, time passes, and Shutdown returns once it can
SpecRun ==
    /\ InitRun
    /\ [][NextRun]_vars
    /\ WF_vars(SelectSignal \/ SelectDone \/ SelectServerErr)
    /\ WF_vars(SendServerErr)
    /\ WF_vars(Tick)
    /\ WF_vars(ShutdownReturns)

Returned == runPc = "returned"

\* what Run returned fits the case its select took
RunResultFits ==
    Returned =>
        /\ runResult = "nil" =>
              /\ taken \in {"signal", "ctx"}
              /\ conns = 0
              /\ elapsed <= Grace
              /\ listener # "serving"
        /\ (taken \in {"signal", "ctx"} /\ conns > 0) =>
              /\ runResult = "context deadline exceeded"
              /\ elapsed = Grace
        /\ runResult \in {"close error", "context deadline exceeded"} =>
              taken \in {"signal", "ctx"}
        /\ taken = "serverErr" =>
              /\ runResult = "listen error"
              /\ listener = "failed"
              /\ elapsed = 0

\* a select that finds the listen error and neither a signal nor a done
\* context returns the listen error
OnlyListenErrorPending ==
    (runPc = "select" /\ serverErr # "" /\ sigChan = "" /\ ~ctxDone /\ runPc' # "select")
        => (runPc' = "returned" /\ runResult' = "listen error")

\* C30, with the listen error returned when the select takes it: Run returns
\* nil only after a signal or a cancellation and a shutdown that completed
\* without error within the grace period; it returns the error of a shutdown
\* that failed or timed out; it returns the listen error, without a shutdown,
\* when the select takes the listen error, as it does when neither a signal
\* nor a cancellation is pending; after a signal Run eventually returns.
C30_RunReturns ==
    /\ [](RunResultFits)
    /\ [][OnlyListenErrorPending]_vars
    /\ (sigChan # "") ~> Returned

\* C30 as stated: the listen error is returned, without a shutdown, whenever
\* the listener fails before any signal or cancellation.
C30_ListenErrorFirst ==
    (Returned /\ firstEvent = "listen") =>
        /\ runResult = "listen error"
        /\ taken = "serverErr"

\* C30 witness: Run returned nil after a signal and a shutdown that took part
\* of its grace period.
C30_Witness ==
    /\ Returned
    /\ taken = "signal"
    /\ runResult = "nil"
    /\ elapsed > 0
    /\ listener = "closed"

(***************************************************************************)
(* Properties of the clients of a tool call.                               *)
(***************************************************************************)
IsLoadRestConfig(c) == c.op = "LoadRestConfig"

\* the calls that go to a cluster
ToCluster(c) == c.op \in {"Discovery", "List", "Get", "Apply"}

\* C31: in every tool call the client built for a cluster URL has that URL as
\* its host and the raw token of the verified request, unchanged, as its
\* bearer token; the same token goes to every cluster of the call, and no
\* client is built for a URL outside the token's api_server_urls.
C31_ClientsCarryUrlAndToken ==
    \A k \in CallIndices :
        /\ IsLoadRestConfig(calls[k]) =>
              /\ calls[k].text = token.Raw
              /\ calls[k].cluster \in 1..Len(ClustersOfToken)
              /\ calls[k].host = ClustersOfToken[calls[k].cluster]
              /\ calls[k].host # Audience
        /\ ToCluster(calls[k]) =>
              \E j \in 1..(k - 1) :
                  /\ IsLoadRestConfig(calls[j])
                  /\ calls[j].ok
                  /\ calls[j].cluster = calls[k].cluster
                  /\ calls[j].host = calls[k].host

\* C31 witness: the clients of two clusters were built, both with the token
\* of the request.
C31_Witness ==
    \E j, k \in CallIndices :
        /\ IsLoadRestConfig(calls[j]) /\ IsLoadRestConfig(calls[k])
        /\ calls[j].host = "https://c1" /\ calls[k].host = "https://c2"
        /\ calls[j].text = token.Raw /\ calls[k].text = token.Raw
        /\ token.Raw # ""

(***************************************************************************)
(* What the logging handler and the logging middleware write.              *)
(***************************************************************************)
\* the tokens of the logged requests: two token strings, and an audience
\* without a cluster that is rejected before the logging handler
LogTokens ==
    {[Raw |-> raw, parseErr |-> FALSE, Valid |-> TRUE, ExpiresAt |-> MaxTime,
      NotBefore |-> Nil, Audience |-> a, Scopes |-> <<>>] :
        raw \in {"token-1", "token-2"},
        a \in {<<"https://c1", "k-mcp">>, <<"https://c1", "https://c2", "k-mcp">>,
               <<"k-mcp">>}}

\* the arguments of the logged resource_get calls; the client may name
\* anything, the string of its own token included
LogInputs ==
    [Resource : {"Pod", "Node"}, Name : {"nginx", "token-1"}, Namespace : {"", "demo"}]

InitLog ==
    /\ RunIdle
    /\ Audience = "k-mcp"
    /\ token \in LogTokens
    /\ now = 0
    /\ auth = NoAuth
    /\ stage = "RequireBearerToken"
    /\ httpStatus = 0
    /\ cancelledAt = Nil
    /\ FindIdle
    /\ tool = "resource_get"
    /\ input \in LogInputs
    /\ pc = "idle"
    /\ unstructuredList = <<>>
    /\ ci = 0
    /\ oi = 0
    /\ pending = NoPending
    /\ resourceInfos = <<>>
    /\ resourceSummaries = <<>>
    /\ appliedResources = <<>>
    /\ operationSummaries = <<>>
    /\ calls = <<>>
    /\ result = NoResult
    /\ results = <<>>

NextLog ==
    \/ VerifyToken
    \/ LoggingHandler
    \/ LoggingMiddleware
    \/ GetCall
    \/ GetLoadRestConfig
    \/ GetFindResource
    \/ GetNamespaceElicit
    \/ GetResource

SpecLog == InitLog /\ [][NextLog]_vars

\* the HTTP request as loggingHandler receives it
HttpRequest ==
    [RemoteAddr |-> "10.0.0.1:5000", Method |-> "POST", Path |-> "/mcp",
     Authorization |-> "Bearer " \o token.Raw]

\* mutant: the logging handler writes the Authorization header too
RequestLog_WithHeader(r) == <<r.RemoteAddr, r.Method, r.Path, r.Authorization>>

\* the attributes of "[REQUEST]" and "[RESPONSE]" taken from the request
RequestLog(r) == <<r.RemoteAddr, r.Method, r.Path>>

\* "args" of "Calling tool": the arguments of the call
ArgValues(in) == {in.Resource, in.Name, in.Namespace}

\* "name" and "args" of "Calling tool"
CallingToolLog == {tool} \cup ArgValues(input)

\* "err" of "MCP method failed" and "structuredContent" of "tool result"
ToolResultLog ==
    IF result.status = "result" THEN {results[i] : i \in 1..Len(results)}
    ELSE {result.text}

\* the values of the log records written so far
LogValues ==
    (IF stage \in {"loggingMiddleware", "tool"}
     THEN {RequestLog(HttpRequest)[i] : i \in 1..Len(RequestLog(HttpRequest))} ELSE {})
    \cup (IF stage = "tool" THEN CallingToolLog ELSE {})
    \cup (IF stage = "tool" /\ pc = "done" THEN ToolResultLog ELSE {})

\* C32: no value written by the HTTP logging handler or the MCP receiving
\* middleware, logged tool arguments, errors and structured content included,
\* contains the token string.
C32_TokenNeverLogged ==
    \A v \in LogValues : ~Contains(v, token.Raw)

\* C32, for what the server adds to the log: a logged value holds the token
\* string only where the arguments of the call hold it.
C32_TokenLoggedOnlyFromArguments ==
    \A v \in LogValues :
        Contains(v, token.Raw) => \E a \in ArgValues(input) : Contains(a, token.Raw)

\* C32 witness: a call returned and its request, arguments and result are
\* logged, none with the token in it.
C32_Witness ==
    /\ stage = "tool"
    /\ pc = "done"
    /\ result.status = "result"
    /\ token.Raw = "token-2"
    /\ input.Name = "token-1"
    /\ Cardinality(LogValues) > 5
    /\ \A v \in LogValues : ~Contains(v, token.Raw)

(***************************************************************************)
(* The discovery cache directory of LoadRestConfig.                        *)
(***************************************************************************)
\* homedir.HomeDir()
HomeDir == "/home/k"

\* the API server URLs of two clients
CacheUrls ==
    { "https://c1", "https://c1/", "https://c1//", "http://c1", "https://c2",
      "https://c2/", "https://c1/../c2", "https://c1/x/.." }

\* the elements of a path between its separators
Elements(path) == Split(path, "/")

\* filepath.Clean on the elements of a rooted path: empty elements and "." are
\* dropped, ".." drops the element before it
RECURSIVE CleanElements(_, _)
CleanElements(elems, kept) ==
    IF Len(elems) = 0 THEN kept
    ELSE LET e == Head(elems)
         IN  IF e = "" \/ e = "." THEN CleanElements(Tail(elems), kept)
             ELSE IF e = ".."
             THEN CleanElements(Tail(elems),
                                IF Len(kept) = 0 THEN kept
                                ELSE SubSeq(kept, 1, Len(kept) - 1))
             ELSE CleanElements(Tail(elems), Append(kept, e))

\* filepath.Clean of a rooted path
Clean(path) == "/" \o Join(CleanElements(Elements(path), <<>>), "/")

\* filepath.Join: the elements joined with the separator, then cleaned
FilepathJoin(elems) == Clean(Join(elems, "/"))

\* cacheDir := filepath.Join(homedir.HomeDir(), "k-mcp-discovery-cache", apiServerUrl)
cacheDir(apiServerUrl) == FilepathJoin(<<HomeDir, "k-mcp-discovery-cache", apiServerUrl>>)

InitCache ==
    /\ RunIdle
    /\ FindIdle
    /\ AuthIdle
    /\ input \in [first : CacheUrls, second : CacheUrls]
    /\ pc = "cache"
    /\ unstructuredList = <<>>
    /\ ci = 0
    /\ oi = 0
    /\ pending = NoPending
    /\ resourceInfos = <<>>
    /\ resourceSummaries = <<>>
    /\ appliedResources = <<>>
    /\ operationSummaries = <<>>
    /\ calls = <<>>
    /\ result = NoResult
    /\ results = <<>>
    /\ tool = ""

\* LoadRestConfig for the two URLs: the cache directory of each
CacheDirs ==
    /\ pc = "cache"
    /\ results' = <<cacheDir(input.first), cacheDir(input.second)>>
    /\ pc' = "cached"
    /\ UNCHANGED <<input, unstructuredList, ci, oi, pending, resourceInfos,
                   resourceSummaries, appliedResources, operationSummaries, calls,
                   result, tool, findVars, authVars, runVars>>

NextCache == CacheDirs

SpecCache == InitCache /\ [][NextCache]_vars

\* C33: the cache directory is injective on API server URLs: two distinct
\* URLs, also ones that differ only by a trailing slash, a doubled slash or a
\* ".." segment, never get the same discovery cache directory.
C33_CacheDirInjective ==
    (pc = "cached" /\ input.first # input.second) => results[1] # results[2]

(***************************************************************************)
(* The order of the checks of the token.                                   *)
(***************************************************************************)
\* the earliest check of the validation order that the token violates
EarliestViolated ==
    IF token.parseErr \/ ~token.Valid THEN "parse"
    ELSE IF token.ExpiresAt = Nil \/ token.ExpiresAt < now THEN "exp"
    ELSE IF token.NotBefore # Nil /\ token.NotBefore > now THEN "nbf"
    ELSE IF Len(token.Audience) = 0 THEN "aud"
    ELSE IF McpCount = 0 THEN "mcp audience"
    ELSE IF McpCount = Len(token.Audience) THEN "urls"
    ELSE "none"

\* the number of checks the token violates
ViolatedCount ==
    Cardinality({c \in {"parse", "exp", "nbf", "aud", "mcp audience"} :
        \/ c = "parse" /\ (token.parseErr \/ ~token.Valid)
        \/ c = "exp" /\ (token.ExpiresAt = Nil \/ token.ExpiresAt < now)
        \/ c = "nbf" /\ (token.NotBefore # Nil /\ token.NotBefore > now)
        \/ c = "aud" /\ Len(token.Audience) = 0
        \/ c = "mcp audience" /\ McpCount = 0})

\* the check an error text reports
ReportedCheck(err) ==
    IF err \in {"failed to parse token", "invalid token"} THEN "parse"
    ELSE IF err \in {"invalid token expired", "token has expired"} THEN "exp"
    ELSE IF err = "token not yet valid" THEN "nbf"
    ELSE IF err = "invalid token audience" THEN "aud"
    ELSE IF StartsWith(err, "token audience does not match ") THEN "mcp audience"
    ELSE IF StartsWith(err, "apiserver url not found in audience ") THEN "urls"
    ELSE "none"

CancelledResult ==
    /\ result.status = "result"
    /\ result.text \in {"Operation cancelled by user",
                        "Operation cancelled - user did not confirm"}

\* resource_apply returned an error or a cancelled result
ApplyGaveUp ==
    /\ ApplyStarted
    /\ pc = "done"
    /\ result.status = "error" \/ CancelledResult

\* the cluster the handler was at when it returned: that of its last call
LastCluster == IF calls = <<>> THEN 0 ELSE calls[Len(calls)].cluster

\* the error is that of a real apply
RealApplyFailed == StartsWith(result.text, "failed to apply ")

\* the cluster was confirmed by the user and had every object really applied
FullyApplied(cluster) ==
    /\ \E j \in CallIndices :
          /\ IsConfirm(calls[j]) /\ calls[j].cluster = cluster
          /\ ~calls[j].reply.err /\ ~Declined(calls[j].reply)
    /\ \A d \in 1..Len(unstructuredList) :
          \E k \in CallIndices :
              /\ IsRealApply(calls[k]) /\ calls[k].ok
              /\ calls[k].cluster = cluster /\ calls[k].doc = d

\* C35 as stated: when resource_apply returns an error or a cancelled result,
\* no real apply has been issued to any cluster during the call.
C35_NoRealApplyOnFailure ==
    ApplyGaveUp => \A k \in CallIndices : ~IsRealApply(calls[k])

\* C35: when resource_apply returns an error or a cancelled result at cluster
\* j, cluster j has had no real apply unless the error is that of a real
\* apply, no later cluster has had a call, and every cluster before j was
\* confirmed and has had every object really applied.
C35_FailureLeavesEarlierClustersApplied ==
    ApplyGaveUp =>
        /\ \A k \in CallIndices :
              /\ calls[k].cluster <= LastCluster
              /\ (IsRealApply(calls[k]) /\ calls[k].cluster = LastCluster)
                    => RealApplyFailed
              /\ (IsRealApply(calls[k]) /\ calls[k].cluster < LastCluster)
                    => calls[k].ok
        /\ \A c \in 1..(LastCluster - 1) : FullyApplied(c)

\* C35 witness: the user cancelled on the second cluster after the first one
\* was applied.
C35_Witness ==
    /\ ApplyGaveUp
    /\ CancelledResult
    /\ LastCluster = 2
    /\ \E k \in CallIndices : IsRealApply(calls[k]) /\ calls[k].cluster = 1

(***************************************************************************)
(* The object of the real apply is the object of the dry-run.              *)
(***************************************************************************)
\* the line of the preview that stands for the object of an apply
PreviewLine(c) ==
    "- apply " \o c.obj.Kind \o "/" \o c.obj.Name
        \o (IF c.namespace = "" THEN "" ELSE " (namespace: " \o c.namespace \o ")")

\* the real apply k sends what the dry-run i sent, to the same endpoint
SameRequest(i, k) ==
    /\ calls[i].cluster = calls[k].cluster /\ calls[i].host = calls[k].host
    /\ calls[i].doc = calls[k].doc
    /\ calls[i].obj = calls[k].obj
    /\ calls[i].gvr = calls[k].gvr
    /\ calls[i].namespace = calls[k].namespace

\* the apply goes to a namespace exactly for a namespaced resource, and then to
\* the namespace the object carries, which is never empty
NamespaceFits(c) ==
    IF NamespacedIn(c.host, c.gvr)
    THEN c.namespace # "" /\ c.obj.Namespace = c.namespace
    ELSE c.namespace = ""

\* the input decodes and one of its objects has no Kind
KindMissing ==
    /\ ~HasUndecodable
    /\ \E i \in 1..Len(input) : input[i].t = "obj" /\ input[i].Kind = ""

\* C36 as stated: the real apply repeats the dry-run, and an object without a
\* Kind makes the call fail before any elicit or real apply.
C36_KindMissingFailsBeforeAnyElicit ==
    (ApplyStarted /\ KindMissing) =>
        \A k \in CallIndices : ~IsElicit(calls[k]) /\ ~IsRealApply(calls[k])

\* C36: every real apply on a cluster sends the object, to the resource and
\* namespace, of an earlier successful dry-run on that cluster, with a
\* confirmation elicit in between whose preview holds the line of that object;
\* a namespaced resource is applied in the namespace the object carries
\* ("default" when it had none). An object without a Kind makes the call fail
\* before any confirmation elicit and any real apply.
C36_RealApplyRepeatsDryRun ==
    /\ \A k \in CallIndices :
          IsRealApply(calls[k]) =>
              /\ NamespaceFits(calls[k])
              /\ \E i \in 1..(k - 1) :
                    /\ IsDryRun(calls[i]) /\ calls[i].ok
                    /\ SameRequest(i, k)
                    /\ \E j \in (i + 1)..(k - 1) :
                          /\ IsConfirm(calls[j])
                          /\ calls[j].cluster = calls[k].cluster
                          /\ Contains(calls[j].text, PreviewLine(calls[k]))
    /\ (ApplyStarted /\ KindMissing) =>
          /\ \A k \in CallIndices : ~IsConfirm(calls[k]) /\ ~IsRealApply(calls[k])
          /\ pc = "done" => result.status = "error"

\* C36 witness: an object without a namespace was really applied in "default"
\* on the second cluster.
C36_Witness ==
    \E k \in CallIndices :
        /\ IsRealApply(calls[k]) /\ calls[k].cluster = 2
        /\ input[calls[k].doc].Namespace = ""
        /\ calls[k].obj.Namespace = "default"

\* C36 witness of the second half: the call failed for a missing Kind after
\* the dry-run of an earlier object.
C36_KindWitness ==
    /\ KindMissing
    /\ pc = "done"
    /\ result = Return("error", "resource kind is required")
    /\ \E i \in CallIndices : IsDryRun(calls[i])

(***************************************************************************)
(* The namespace of a resource_get call over several clusters.             *)
(***************************************************************************)
\* the namespace an accepted namespace elicit stands for
ElicitedNamespace(c) ==
    IF /\ "namespace" \in DOMAIN c.reply.Content
       /\ c.reply.Content["namespace"].t = "string"
       /\ c.reply.Content["namespace"].v # ""
    THEN c.reply.Content["namespace"].v
    ELSE "default"

NamespaceElicits == {k \in CallIndices : IsNamespaceElicit(calls[k])}

\* C37: a resource_get call issues at most one namespace elicit, and once it
\* was accepted every GET of the call, on the cluster of the elicit and on
\* every later cluster, is sent in the namespace obtained from it.
C37_NamespaceIsKept ==
    tool = "resource_get" =>
        /\ Cardinality(NamespaceElicits) <= 1
        /\ \A j \in NamespaceElicits :
              \A k \in (j + 1)..Len(calls) :
                  IsGet(calls[k]) =>
                      /\ ~calls[j].reply.err /\ calls[j].reply.Action = "accept"
                      /\ calls[k].namespace = ElicitedNamespace(calls[j])

\* C37 witness: the namespace was elicited on the first cluster, and the second
\* cluster received its GET in it.
C37_Witness ==
    /\ tool = "resource_get"
    /\ \E j \in NamespaceElicits :
          /\ calls[j].cluster = 1
          /\ \E k \in CallIndices :
                /\ IsGet(calls[k]) /\ calls[k].cluster = 2
                /\ calls[k].namespace = "prod"
                /\ NamespacedIn(calls[k].host, calls[k].gvr)

(***************************************************************************)
(* FindResource of an input that names a group.                            *)
(***************************************************************************)
\* discovery answers in which a Kind is served by more than one group
GroupLists ==
    { [GroupVersion |-> "v1",
       APIResources |-> <<Res("pods", "Pod", TRUE),
                          Res("podtemplates", "PodTemplate", TRUE)>>],
      [GroupVersion |-> "example.com/v1",
       APIResources |-> <<Res("pods", "Pod", TRUE)>>],
      [GroupVersion |-> "metrics.k8s.io/v1beta1",
       APIResources |-> <<Res("pods", "PodMetrics", TRUE)>>],
      [GroupVersion |-> "apps/v1",
       APIResources |-> <<Res("deployments", "Deployment", TRUE)>>],
      [GroupVersion |-> "extensions/v1beta1",
       APIResources |-> <<Res("deployments", "Deployment", TRUE)>>] }

GroupDiscoveries ==
    {[err |-> FALSE, lists |-> q] :
        q \in {r \in SeqsUpTo(GroupLists, MaxLists) : NoRepeat(r) /\ r # <<>>}}

\* resource strings of the forms Kind.group and Kind.version.group
GroupNames ==
    { "Pod.example.com", "Pod.metrics.k8s.io", "Deployment.apps",
      "Deployment.extensions", "Deployment.v1.apps" }

InitGroup ==
    /\ RunIdle
    /\ discovery \in GroupDiscoveries
    /\ resourceName \in GroupNames
    /\ hasSession \in BOOLEAN
    /\ elicitReply = NoReply
    /\ found = NotFound
    /\ findPc = "call"
    /\ AuthIdle
    /\ ToolIdle

NextGroup == FindResourceCall

SpecGroup == InitGroup /\ [][NextGroup]_vars

\* the group the input names: that of Kind.version.group when the input has
\* two dots or more, that of Kind.group otherwise
NamedGroup ==
    IF ParseKindArg(resourceName).hasGVK
    THEN ParseKindArg(resourceName).gvk.Group
    ELSE ParseGroupKind(resourceName).Group

\* FindResource returned a resource
Returned38 == Resolved /\ found.err = ""

\* C38 as stated: for an input that names a group FindResource never returns a
\* resource of another group.
C38_NeverAnotherGroup ==
    Returned38 => found.gvr.Group = NamedGroup

\* C38: for an input Kind.group FindResource returns the first resource of
\* that Kind in that group when there is one; when there is none, the group is
\* not looked at any more: the resource returned is a partial match by Kind or
\* plural name of whatever group, without an elicit when it is the only one.
C38_GroupBindsExactMatchesOnly ==
    Returned38 =>
        IF Exacts # {}
        THEN /\ found.gvr = EntryGVR(discovery, Nth(Exacts, 1))
             /\ found.gvr.Group = ParseGroupKind(resourceName).Group
             /\ found.elicits = <<>>
        ELSE /\ \E p \in Partials : found.gvr = EntryGVR(discovery, p)
             /\ Cardinality(Partials) = 1 <=> found.elicits = <<>>

\* C38 witness: with no resource of the Kind in the named group, the only
\* resource of that Kind, of another group, was returned without an elicit.
C38_Witness ==
    /\ Returned38
    /\ Exacts = {}
    /\ found.elicits = <<>>
    /\ found.gvr.Group # NamedGroup
    /\ \E p \in Partials :
          /\ found.gvr = EntryGVR(discovery, p)
          /\ EntryKind(discovery, p) = ParseGroupKind(resourceName).Kind

(***************************************************************************)
(* The goroutine of Server.Run that runs ListenAndServe.                   *)
(***************************************************************************)
\* the goroutine is at its send into serverErr
AtSend == listener = "erred"

\* the goroutine has ended: after its send, or without one when
\* ListenAndServe returned ErrServerClosed
GoroutineEnded == listener \in {"failed", "closed"}

\* the send of the goroutine finds room in serverErr
SendHasRoom == AtSend => Buffered(serverErr) < serverErrCap

\* C39: the goroutine that runs ListenAndServe never blocks for ever: its one
\* send into serverErr always finds room and completes, whichever case the
\* select of Run took, and once Run has returned the goroutine ends.
C39_GoroutineEnds ==
    /\ [](SendHasRoom)
    /\ AtSend ~> GoroutineEnded
    /\ Returned ~> GoroutineEnded

\* C39 witness: the select took the signal while the listen error was on its
\* way, Run returned from the shutdown, and the goroutine completed its send
\* with nobody left to receive.
C39_Witness ==
    /\ Returned
    /\ taken = "signal"
    /\ listener = "failed"
    /\ serverErr = "listen error"

====
